---------------------------- MODULE Spec2Model ----------------------------
(***************************************************************************)
(* Model of the recommendation core of user-playlist-generator:            *)
(*   - the audio_features store (insert-if-absent, lookup, nearest rows),  *)
(*   - ensure_track_in_db (resolve a seed, extracting it when absent),     *)
(*   - run_enhanced_recommendation_script (lottery, seed resolution,       *)
(*     ranked candidates, validation chain, acceptance).                   *)
(*                                                                         *)
(* Numbers.  Every stored feature column holds an integer on a fixed grid: *)
(* tempo in bpm, the *_hz columns in Hz, dynamic_range in dB, and the      *)
(* unit-interval columns in hundredths.  Raw (extracted) values are held   *)
(* ten times finer, so that the round(..., 6) of the insert is a real      *)
(* rounding.  similarity_distance is held as the weighted sum of squares   *)
(* under the SQRT, scaled by DistScale; SQRT is monotone, so ORDER BY      *)
(* gives the same order.                                                   *)
(***************************************************************************)
EXTENDS Integers, Sequences, FiniteSets, TLC

\* ------------------------------------------------------------------ bounds
\* Largest max_songs a run is started with.
MaxSongs == 2
\* Largest LIMIT tried on find_most_similar_track_in_db called on its own.
MaxLimit == 2
\* Most collaborator calls (provider, oracle, store) that fail within one run.
MaxFailures == 1

\* ------------------------------------------------------- program constants
\* retries while resolving one winner's seed
max_retries == 5
\* max_results passed by the run to find_most_similar_track_in_db
run_max_results == 20

\* ------------------------------------------------------------ basic values
\* SQL NULL in a numeric column or a distance: a value outside every column's range.
NULL == 0 - 999999
\* No row for a track id.
NoRow == [present |-> FALSE]
\* An empty feature dict (`not features`).
NoFeatures == [k \in {} |-> 0]

\* The 16 columns the distance is computed over, in the order of the SQL.
DistCols ==
  << "tempo_bpm", "beat_regularity", "brightness_hz", "treble_hz",
     "fullness_hz", "dynamic_range", "percussiveness", "loudness",
     "warmth", "punch", "texture", "energy", "danceability",
     "mood_positive", "acousticness", "instrumental" >>

\* Every numeric feature column of a row (key_musical takes no part in the distance).
FeatureCols == {DistCols[i] : i \in 1..Len(DistCols)} \cup {"key_musical"}

\* Weight of each column in the SQL, times 10.
Weight10(c) ==
  CASE c = "tempo_bpm" -> 8        [] c = "beat_regularity" -> 12
    [] c = "brightness_hz" -> 10   [] c = "treble_hz" -> 7
    [] c = "fullness_hz" -> 6      [] c = "dynamic_range" -> 9
    [] c = "percussiveness" -> 8   [] c = "loudness" -> 7
    [] c = "warmth" -> 10          [] c = "punch" -> 8
    [] c = "texture" -> 9          [] c = "energy" -> 15
    [] c = "danceability" -> 13    [] c = "mood_positive" -> 12
    [] c = "acousticness" -> 10    [] c = "instrumental" -> 8

\* Divisor of each column in the SQL, in the column's grid: 200 bpm, 5000 Hz,
\* 10000 Hz, 5000 Hz, 40 dB, and 1.00 (= 100 hundredths) where the SQL divides by nothing.
Norm(c) ==
  CASE c = "tempo_bpm" -> 200
    [] c = "brightness_hz" -> 5000
    [] c = "treble_hz" -> 10000
    [] c = "fullness_hz" -> 5000
    [] c = "dynamic_range" -> 40
    [] OTHER -> 100

\* Common multiple of the divisors: (x - q) * DistScale / Norm(c) is a whole number.
DistScale == 10000

\* ------------------------------------------------------------------- world
\* The catalogue the metadata provider, the media oracle and the tag service
\* answer from.  t* are tracks the listener may have liked (seeds), c* are
\* tracks only the store knows of (candidates).
TrackIds == {"t1", "t2", "t3", "c1", "c2", "c3", "c4", "c5"}
ArtistIds == {"a1", "a2", "a3", "a4", "a5"}

\* sp.track(id)['artists'], primary artist first.
TrackArtists(t) ==
  CASE t = "t1" -> <<"a1">>
    [] t = "t2" -> <<"a1">>
    [] t = "t3" -> <<"a2">>
    [] t = "c1" -> <<"a2">>
    [] t = "c2" -> <<"a3">>
    [] t = "c3" -> <<"a4", "a1">>
    [] t = "c4" -> <<"a4">>
    [] t = "c5" -> <<"a5">>

ArtistSet(t) == {TrackArtists(t)[i] : i \in 1..Len(TrackArtists(t))}

\* sp.artist(id)['followers']['total']
Followers(a) ==
  CASE a = "a1" -> 900
    [] a = "a2" -> 800
    [] a = "a3" -> 5000
    [] a = "a4" -> 500
    [] a = "a5" -> 10

\* What the tag sources hold for an artist (as get_or_create_artist_genres returns it).
ArtistGenres(a) ==
  CASE a = "a1" -> <<"Hip Hop", "rock">>
    [] a = "a2" -> <<"rock">>
    [] a = "a3" -> <<"jazz">>
    [] a = "a4" -> <<>>
    [] a = "a5" -> <<"hip-hop">>

\* The feature dict's key for each column (the INSERT's parameters, the seed
\* row read back by the run, the query's parameters).
KeyOf(c) ==
  CASE c = "tempo_bpm" -> "tempo"
    [] c = "key_musical" -> "key_estimate"
    [] c = "beat_regularity" -> "beat_strength"
    [] c = "brightness_hz" -> "spectral_centroid"
    [] c = "treble_hz" -> "spectral_rolloff"
    [] c = "fullness_hz" -> "spectral_bandwidth"
    [] c = "dynamic_range" -> "spectral_contrast"
    [] c = "percussiveness" -> "zero_crossing_rate"
    [] c = "loudness" -> "rms_energy"
    [] c = "warmth" -> "harmonic_mean"
    [] c = "punch" -> "percussive_mean"
    [] c = "texture" -> "mfcc_mean"
    [] c = "mood_positive" -> "valence"
    [] c = "instrumental" -> "instrumentalness"
    [] OTHER -> c

FeatureKeys == {KeyOf(c) : c \in FeatureCols}

BaseRaw ==
  [c \in FeatureKeys |->
     CASE c = "tempo" -> 1200
       [] c = "key_estimate" -> 5
       [] c = "beat_strength" -> 500
       [] c = "spectral_centroid" -> 20000
       [] c = "spectral_rolloff" -> 40000
       [] c = "spectral_bandwidth" -> 15000
       [] c = "spectral_contrast" -> 200
       [] c = "zero_crossing_rate" -> 100
       [] c = "rms_energy" -> 200
       [] c = "harmonic_mean" -> 300
       [] c = "percussive_mean" -> 200
       [] c = "mfcc_mean" -> -50
       [] c = "energy" -> 800
       [] c = "danceability" -> 700
       [] c = "valence" -> 600
       [] c = "acousticness" -> 100
       [] c = "instrumentalness" -> 50]

\* extract_audio_features of the track's media, keyed as the feature dict is:
\* raw values, ten to one grid step (key_estimate is an int and is stored as it is).
RawFeatures(t) ==
  CASE t = "t1" -> BaseRaw
    [] t = "t2" -> [BaseRaw EXCEPT !["energy"] = 755]
    [] t = "t3" -> [BaseRaw EXCEPT !["tempo"] = 1000, !["energy"] = 600]
    [] t = "c1" -> [BaseRaw EXCEPT !["energy"] = 780]
    [] t = "c2" -> [BaseRaw EXCEPT !["energy"] = 760, !["tempo"] = 1240]
    [] t = "c3" -> [BaseRaw EXCEPT !["danceability"] = 660]
    [] t = "c4" -> [BaseRaw EXCEPT !["danceability"] = 640, !["tempo"] = 1180]
    [] t = "c5" -> [BaseRaw EXCEPT !["danceability"] = 640, !["tempo"] = 1180]

\* ------------------------------------------------------------------- store
\* python's round(x, 6) of the insert: to the nearest grid step, ties to even.
Round6(r) ==
  LET q == r \div 10
      m == r % 10
  IN  IF m < 5 THEN q
      ELSE IF m > 5 THEN q + 1
      ELSE IF q % 2 = 0 THEN q ELSE q + 1

\* The row the INSERT writes for a feature dict: every float rounded, key_estimate as it is.
NewRow(features, youtube_title) ==
  [present |-> TRUE,
   f |-> [c \in FeatureCols |->
            IF c = "key_musical" THEN features[KeyOf(c)]
                                  ELSE Round6(features[KeyOf(c)])],
   youtube_match |-> youtube_title]

\* A row whose columns in cols are NULL (written by another writer of the table:
\* the schema lets every feature column be NULL).
WithNulls(row, cols) ==
  [row EXCEPT !.f = [c \in FeatureCols |-> IF c \in cols THEN NULL ELSE row.f[c]]]

CompleteRow(t) == NewRow(RawFeatures(t), t)

IsPartial(row) == row.present /\ \E c \in FeatureCols : row.f[c] = NULL

\* INSERT ... ON CONFLICT (spotify_track_id) DO NOTHING, when the statement runs.
InsertOverwriting(st, track_id, features, youtube_title) ==
  [st EXCEPT ![track_id] = NewRow(features, youtube_title)]

InsertIfAbsent(st, track_id, features, youtube_title) ==
  IF st[track_id] # NoRow
    THEN st
    ELSE [st EXCEPT ![track_id] = NewRow(features, youtube_title)]

\* add_track_to_audio_features_db returning a truthy value on every path.
AddAlwaysTruthy(st, track_id, db_ok) == TRUE

\* add_track_to_audio_features_db: the store afterwards, and whether what it
\* returns is truthy (the new row's id) or not (None).  db_ok = FALSE: execute raises,
\* the transaction is rolled back.
add_track_store(st, track_id, features, youtube_title, db_ok) ==
  IF db_ok THEN InsertIfAbsent(st, track_id, features, youtube_title) ELSE st

add_track_result(st, track_id, db_ok) ==
  db_ok /\ st[track_id] = NoRow

\* ---------------------------------------------------------------- distance
\* One column's term under the SQRT, times 10 * DistScale^2.
Term(c, x, q) ==
  LET d == ((x - q) * DistScale) \div Norm(c) IN d * d * Weight10(c)

RECURSIVE SumTerms(_, _, _)
SumTerms(i, row_f, q) ==
  IF i = 0 THEN 0
  ELSE Term(DistCols[i], row_f[DistCols[i]], q[KeyOf(DistCols[i])])
         + SumTerms(i - 1, row_f, q)

\* similarity_distance of a stored row for query q: NULL as soon as a column of
\* the row or a parameter of the query is NULL (SQL arithmetic on NULL).
similarity_distance(row, q) ==
  IF \E i \in 1..Len(DistCols) : row.f[DistCols[i]] = NULL \/ q[KeyOf(DistCols[i])] = NULL
    THEN NULL
    ELSE SumTerms(Len(DistCols), row.f, q)

\* ORDER BY similarity_distance ASC: NULL sorts after every number.
DistLeq(a, b) ==
  IF b = NULL THEN TRUE ELSE IF a = NULL THEN FALSE ELSE a <= b

OrderBy(a, b) == DistLeq(a, b)

Min2(a, b) == IF a < b THEN a ELSE b

\* WHERE spotify_track_id IS NOT NULL AND spotify_track_id NOT IN (...)
\* (the column is NOT NULL; the second clause is there when the list is non-empty).
WhereNoExclusion(st, exclude) == {t \in TrackIds : st[t] # NoRow}

WhereClause(st, exclude) == {t \in TrackIds : st[t] # NoRow /\ t \notin exclude}

\* Every order the ORDER BY may give the rows of S in: ties fall either way.
RECURSIVE Ordered(_, _, _)
Ordered(S, st, q) ==
  IF S = {} THEN {<<>>}
  ELSE UNION {
         {<<t>> \o rest : rest \in Ordered(S \ {t}, st, q)} :
           t \in {u \in S : \A v \in S :
                    OrderBy(similarity_distance(st[u], q), similarity_distance(st[v], q))}}

Candidate(st, q, t) ==
  [id |-> t, similarity_distance |-> similarity_distance(st[t], q)]

\* find_most_similar_track_in_db: the lists it may return.  db_ok = FALSE
\* stands for a query that raises.
find_most_similar_track_in_db(st, features, liked_track_ids, max_results, db_ok) ==
  IF features = NoFeatures \/ ~db_ok THEN {<<>>}
  ELSE LET S == WhereClause(st, liked_track_ids)
           n == Min2(max_results, Cardinality(S))
       IN  {[i \in 1..n |-> Candidate(st, features, o[i])] : o \in Ordered(S, st, features)}

\* What the run reads back from a stored row: the feature dict of the seed.
RowFeatures(row) == [k \in FeatureKeys |-> row.f[CHOOSE c \in FeatureCols : KeyOf(c) = k]]

\* ---------------------------------------------------------------- resolver
\* What process_track_for_db may meet for one track: sp.track raising, the
\* search finding no video, the search or the download hitting the rate limit,
\* the download or the analysis failing, or features coming back.
ProcessOutcomes ==
  {"track_error", "no_match", "search_rate_limited",
   "extract_failed", "extract_rate_limited", "ok"}

\* process_track_for_db: how many times it called the search and the extraction
\* oracle, whether YouTubeRateLimitError left it, and whether it returned features.
process_track_for_db(track_id, oc) ==
  [search_calls  |-> IF oc = "track_error" THEN 0 ELSE 1,
   extract_calls |-> IF oc \in {"extract_failed", "extract_rate_limited", "ok"} THEN 1 ELSE 0,
   raised        |-> oc \in {"search_rate_limited", "extract_rate_limited"},
   features      |-> IF oc = "ok" THEN RawFeatures(track_id) ELSE NoFeatures,
   youtube_title |-> track_id]

\* What one call of ensure_track_in_db may meet: the existence query raising,
\* one of the outcomes of processing, or the INSERT raising.
EnsureScenarios ==
  {[check_ok |-> FALSE, oc |-> "ok", write_ok |-> TRUE],
   [check_ok |-> TRUE, oc |-> "ok", write_ok |-> FALSE]}
  \cup {[check_ok |-> TRUE, oc |-> o, write_ok |-> TRUE] : o \in ProcessOutcomes}

AllOk == [check_ok |-> TRUE, oc |-> "ok", write_ok |-> TRUE]

\* The existence check at the head of ensure_track_in_db:
\* SELECT id FROM audio_features WHERE spotify_track_id = %s.
RowExists(st, track_id) == st[track_id] # NoRow

NoCalls(track_id, ret, st) ==
  [track_id |-> track_id, ret |-> ret, store |-> st, search_calls |-> 0,
   extract_calls |-> 0, insert_calls |-> 0, rate_limited |-> FALSE, cache_hit |-> ret,
   oc |-> "none"]

\* features.get(key, 0) on a dict that holds nothing.
ZeroFeatures == [k \in FeatureKeys |-> 0]

\* ensure_track_in_db going on to the INSERT with whatever processing returned.
ensure_inserting_unprocessed(st, track_id, available, check_ok, oc, write_ok) ==
  IF ~available \/ ~check_ok THEN [NoCalls(track_id, FALSE, st) EXCEPT !.cache_hit = FALSE]
  ELSE IF RowExists(st, track_id) THEN NoCalls(track_id, TRUE, st)
  ELSE LET p == process_track_for_db(track_id, oc)
           features == IF p.features = NoFeatures THEN ZeroFeatures ELSE p.features
       IN  [track_id |-> track_id,
            ret |-> add_track_result(st, track_id, write_ok),
            store |-> add_track_store(st, track_id, features, p.youtube_title, write_ok),
            search_calls |-> p.search_calls, extract_calls |-> p.extract_calls,
            insert_calls |-> 1, rate_limited |-> FALSE, cache_hit |-> FALSE,
            oc |-> oc]

\* ensure_track_in_db(sp, conn, track_id): what it returns (truthy or not), the
\* store afterwards, the calls it made and what processing met (oc, "none" when
\* it did not process).  available is AUDIO_FEATURES_AVAILABLE; check_ok = FALSE:
\* the existence query raises; write_ok = FALSE: the INSERT raises.
ensure_track_in_db(st, track_id, available, check_ok, oc, write_ok) ==
  IF ~available THEN [NoCalls(track_id, FALSE, st) EXCEPT !.cache_hit = FALSE]
  ELSE IF ~check_ok THEN [NoCalls(track_id, FALSE, st) EXCEPT !.cache_hit = FALSE]
  ELSE IF RowExists(st, track_id) THEN NoCalls(track_id, TRUE, st)
  ELSE LET p == process_track_for_db(track_id, oc) IN
       IF p.raised \/ p.features = NoFeatures
         THEN [track_id |-> track_id, ret |-> FALSE, store |-> st,
               search_calls |-> p.search_calls, extract_calls |-> p.extract_calls,
               insert_calls |-> 0, rate_limited |-> p.raised, cache_hit |-> FALSE,
               oc |-> oc]
         ELSE [track_id |-> track_id,
               ret |-> add_track_result(st, track_id, write_ok),
               store |-> add_track_store(st, track_id, p.features, p.youtube_title, write_ok),
               search_calls |-> p.search_calls, extract_calls |-> p.extract_calls,
               insert_calls |-> 1, rate_limited |-> FALSE, cache_hit |-> FALSE,
               oc |-> oc]

\* ------------------------------------------------------------------- state
VARIABLES
  store,            \* audio_features: track id -> row, or NoRow
  audio_available,  \* AUDIO_FEATURES_AVAILABLE
  knn,              \* one call of find_most_similar_track_in_db on its own
  ens,              \* the call of ensure_track_in_db made last, if the last operation
                    \* was one: its argument, result and calls
  add,              \* the call of add_track_to_audio_features_db made last, if the last
                    \* operation made one
  playlist,         \* the destination playlist at the metadata provider: its track ids
  run,              \* run_enhanced_recommendation_script: its arguments, locals and place
  lite,             \* run_lite_script: its arguments, locals and place
  batch,            \* build_audio_features_database: the orchestrator, its workers,
                    \* the two locks and the shared connection
  safe,             \* one call of safe_spotify_call: the wrapped call's responses,
                    \* the attempts made, the waits, what it returned
  dl,               \* one call of download_and_analyze_audio: its place, the temporary
                    \* files on disk, temp_files, how it ended
  sim,              \* one call of get_similar_tracks_by_audio_features_db: its place,
                    \* the connections it opened and closed, what it returned
  fetch,            \* one call of fetch_liked_songs: offset, tracks_data, its place
  locks             \* the builders' print_lock and db_lock and where each worker is
                    \* in the lock sections of process_single_track

vars ==
  <<store, audio_available, knn, ens, add, playlist, run, lite, batch, safe, dl, sim, fetch, locks>>

KnnIdle == [pc |-> "idle"]
NoEnsure == [track_id |-> "", before |-> NoRow]
NoAdd == [track_id |-> "", before |-> NoRow]
RunIdle == [pc |-> "idle"]
LiteIdle == [pc |-> "idle"]
BatchIdle == [pc |-> "idle"]
SafeIdle == [pc |-> "idle"]
DlIdle == [pc |-> "idle"]
SimIdle == [pc |-> "idle"]
FetchIdle == [pc |-> "idle"]
LocksIdle == [pc |-> "idle"]

\* ----------------------------------------- find_most_similar_track_in_db alone
\* Stores the call is tried on: each candidate row absent or complete, c3 and c5
\* also partially populated.
KnnStores ==
  {[t \in TrackIds |->
      IF t \notin present THEN NoRow
      ELSE IF t \in partial /\ t = "c3" THEN WithNulls(CompleteRow(t), {"energy"})
      ELSE IF t \in partial /\ t = "c5" THEN WithNulls(CompleteRow(t), {"key_musical"})
      ELSE CompleteRow(t)] :
     present \in SUBSET {"c1", "c2", "c3", "c4", "c5"}, partial \in SUBSET {"c3", "c5"}}

KnnQueries ==
  { NoFeatures,
    RowFeatures(CompleteRow("t1")),
    RowFeatures(CompleteRow("c4")),
    RowFeatures(WithNulls(CompleteRow("t1"), {"tempo_bpm"})) }

KnnExcludes == { {}, {"c1"}, {"c4", "t1"} }

InitKnn ==
  /\ store \in KnnStores
  /\ knn \in [pc : {"call"}, features : KnnQueries, liked_track_ids : KnnExcludes,
              max_results : 0..MaxLimit, result : {<<>>}]
  /\ audio_available = TRUE
  /\ ens = NoEnsure
  /\ add = NoAdd
  /\ playlist = {}
  /\ run = RunIdle
  /\ lite = LiteIdle
  /\ batch = BatchIdle
  /\ safe = SafeIdle
  /\ dl = DlIdle
  /\ sim = SimIdle
  /\ fetch = FetchIdle
  /\ locks = LocksIdle

KnnCall ==
  /\ knn.pc = "call"
  /\ \E db_ok \in BOOLEAN :
       \E r \in find_most_similar_track_in_db(store, knn.features, knn.liked_track_ids,
                                              knn.max_results, db_ok) :
         knn' = [knn EXCEPT !.pc = "done", !.result = r]
  /\ UNCHANGED <<store, audio_available, ens, add, playlist, run, lite, batch, safe, dl, sim, fetch, locks>>

NextKnn == KnnCall

SpecKnn == InitKnn /\ [][NextKnn]_vars

\* C6: the list returned has at most max_results candidates, is in non-decreasing
\* distance order (a NULL distance after every number), holds no excluded track
\* id, and no stored, non-excluded row left out is strictly nearer than a
\* returned one.
KnnIds == {knn.result[i].id : i \in 1..Len(knn.result)}

C6_KNearest ==
  knn.pc = "done" =>
    /\ Len(knn.result) <= knn.max_results
    /\ \A i \in 1..Len(knn.result) :
         /\ knn.result[i].id \notin knn.liked_track_ids
         /\ store[knn.result[i].id] # NoRow
         /\ knn.result[i].similarity_distance
              = similarity_distance(store[knn.result[i].id], knn.features)
    /\ \A i, j \in 1..Len(knn.result) :
         i < j => /\ DistLeq(knn.result[i].similarity_distance,
                             knn.result[j].similarity_distance)
                  /\ knn.result[i].id # knn.result[j].id
    /\ \A t \in TrackIds :
         (store[t] # NoRow /\ t \notin knn.liked_track_ids /\ t \notin KnnIds) =>
           \A i \in 1..Len(knn.result) :
             DistLeq(knn.result[i].similarity_distance,
                     similarity_distance(store[t], knn.features))

\* A call that returned max_results candidates at different distances, with an
\* excluded row in the store and a farther row left out.
C6_Witness ==
  /\ knn.pc = "done"
  /\ Len(knn.result) = 2
  /\ knn.max_results = 2
  /\ knn.result[1].similarity_distance # knn.result[2].similarity_distance
  /\ knn.result[2].similarity_distance # NULL
  /\ \E t \in knn.liked_track_ids : store[t] # NoRow
  /\ \E t \in TrackIds \ KnnIds : store[t] # NoRow /\ t \notin knn.liked_track_ids

\* C9: no returned candidate is a partially populated row.
C9_NoPartialCandidate ==
  knn.pc = "done" =>
    \A i \in 1..Len(knn.result) : ~IsPartial(store[knn.result[i].id])

\* --------------------------------------------- the store and the resolver alone
\* Tracks and feature dicts the calls are tried with.
StoreTracks == {"t1", "c1"}

OfferedFeatures == {RawFeatures(t) : t \in StoreTracks}

StoreStores ==
  {[t \in TrackIds |->
      IF t \notin present THEN NoRow
      ELSE IF t \in partial THEN WithNulls(CompleteRow(t), {"tempo_bpm", "energy"})
      ELSE CompleteRow(t)] :
     present \in SUBSET {"t1", "c1"}, partial \in SUBSET {"t1"}}

InitStore ==
  /\ store \in StoreStores
  /\ audio_available \in BOOLEAN
  /\ knn = KnnIdle
  /\ ens = NoEnsure
  /\ add = NoAdd
  /\ playlist = {}
  /\ run = RunIdle
  /\ lite = LiteIdle
  /\ batch = BatchIdle
  /\ safe = SafeIdle
  /\ dl = DlIdle
  /\ sim = SimIdle
  /\ fetch = FetchIdle
  /\ locks = LocksIdle

\* A direct call of add_track_to_audio_features_db.
AddTrack ==
  \E t \in StoreTracks, features \in OfferedFeatures, db_ok \in BOOLEAN :
    /\ store' = add_track_store(store, t, features, "video", db_ok)
    /\ add' = [track_id |-> t, before |-> store[t],
               offered |-> NewRow(features, "video"), db_ok |-> db_ok,
               ret |-> add_track_result(store, t, db_ok)]
    /\ ens' = NoEnsure
    /\ UNCHANGED <<audio_available, knn, playlist, run, lite, batch, safe, dl, sim, fetch, locks>>

\* A call of ensure_track_in_db.
EnsureLog(r, st) ==
  [track_id |-> r.track_id, before |-> st[r.track_id], ret |-> r.ret,
   search_calls |-> r.search_calls, extract_calls |-> r.extract_calls,
   insert_calls |-> r.insert_calls, rate_limited |-> r.rate_limited,
   cache_hit |-> r.cache_hit, wrote |-> r.store # st, oc |-> r.oc]

AddLogOfEnsure(r, st, write_ok) ==
  IF r.insert_calls = 0 THEN NoAdd
  ELSE [track_id |-> r.track_id, before |-> st[r.track_id],
        offered |-> NewRow(RawFeatures(r.track_id), r.track_id), db_ok |-> write_ok,
        ret |-> r.ret]

EnsureTrack ==
  \E t \in StoreTracks, sc \in EnsureScenarios :
    LET r == ensure_track_in_db(store, t, audio_available, sc.check_ok, sc.oc, sc.write_ok) IN
    /\ store' = r.store
    /\ ens' = EnsureLog(r, store)
    /\ add' = AddLogOfEnsure(r, store, sc.write_ok)
    /\ UNCHANGED <<audio_available, knn, playlist, run, lite, batch, safe, dl, sim, fetch, locks>>

NextStore == AddTrack \/ EnsureTrack

SpecStore == InitStore /\ [][NextStore]_vars

\* C7: a call of add_track_to_audio_features_db for a track id that already has
\* a row leaves that row as it was.
C7_InsertIfAbsent ==
  (add.track_id # "" /\ add.before # NoRow) => store[add.track_id] = add.before

\* The call was made for a track with a row, offered other values, and the
\* statement ran.
C7_Witness ==
  /\ add.track_id # ""
  /\ add.before # NoRow
  /\ add.db_ok
  /\ add.offered # add.before
  /\ store[add.track_id] = add.before

\* C10: a seed with a row in the store is reported resolved, with no oracle call
\* and no write.
C10_CacheHit ==
  (ens.track_id # "" /\ ens.before # NoRow) =>
    /\ ens.ret
    /\ ens.search_calls = 0 /\ ens.extract_calls = 0
    /\ ens.insert_calls = 0 /\ ~ens.wrote

\* C11: a seed without a row for which the search finds no match, or the
\* extraction fails, is reported unresolvable, no INSERT is made and the store
\* still has no row for it.
C11_UnresolvableLeavesNoRow ==
  (ens.track_id # "" /\ ens.before = NoRow /\ ens.oc \in {"no_match", "extract_failed"}) =>
    /\ ~ens.ret
    /\ ens.insert_calls = 0
    /\ store[ens.track_id] = NoRow

\* A seed without a row whose extraction was tried and failed.
C11_Witness ==
  /\ ens.track_id # ""
  /\ ens.before = NoRow
  /\ ens.oc = "extract_failed"
  /\ ens.search_calls = 1
  /\ ens.extract_calls = 1
  /\ ~ens.ret

NoLimit == 0 - 1

Modes == {"liked_songs", "track", "artist", "album", "playlist"}

\* sp.current_user_saved_tracks: the listener's liked songs, in the order served.
SavedTracks == <<"t1", "t2", "t3">>

\* fetch_tracks_from_source: the seed tracks of the source behind source_url.
SourceTracks(generation_mode) ==
  CASE generation_mode = "track" -> <<"t1">>
    [] generation_mode = "artist" -> <<"t1", "t2", "t1">>
    [] generation_mode = "album" -> <<"t1", "t2">>
    [] generation_mode = "playlist" -> <<"c4", "t3">>
    [] OTHER -> <<>>

SeqSet(q) == {q[i] : i \in 1..Len(q)}

\* build_artist_list_from_liked_songs: every artist of a liked track with at
\* least min_liked_songs liked tracks (each gets a weight of 1 or more).
LikedCount(a) == Cardinality({i \in 1..Len(SavedTracks) : a \in ArtistSet(SavedTracks[i])})

build_artist_list_from_liked_songs(min_liked_songs) ==
  {a \in ArtistIds : LikedCount(a) >= 1 /\ (min_liked_songs > 1 => LikedCount(a) >= min_liked_songs)}

\* The two paging loops at the head of the run: liked tracks and their artists.
FetchLikedTrackIds == SeqSet(SavedTracks)

FetchLikedArtistIds == UNION {ArtistSet(t) : t \in SeqSet(SavedTracks)}

\* build_existing_artist_ids over the destination playlist's items.
build_existing_artist_ids(tracks) == UNION {ArtistSet(t) : t \in tracks}

\* all_excluded_track_ids = liked_track_ids | playlist_track_ids
InitialExcluded(liked_track_ids, playlist_track_ids) ==
  liked_track_ids \cup playlist_track_ids

\* The first liked track with artist aid, old_seed left out ("" leaves none out);
\* "" when there is none.
FirstLikedTrackOf(aid, old_seed) ==
  LET hits == {i \in 1..Len(SavedTracks) :
                 aid \in ArtistSet(SavedTracks[i]) /\ SavedTracks[i] # old_seed}
  IN  IF hits = {} THEN ""
      ELSE SavedTracks[CHOOSE i \in hits : \A j \in hits : i <= j]

Failure(error) == [success |-> FALSE, tracks_added |-> 0, error |-> error]

NoResult == [success |-> FALSE, tracks_added |-> 0, error |-> "none"]

NoValidation == [id |-> "", checks |-> <<>>, follower_fetch |-> FALSE,
                 genre_fetch |-> FALSE, seen_before |-> {}, profile_ok |-> FALSE,
                 winner_aid |-> "", seed_genres |-> <<>>]

\* Stores a run starts on: the candidate rows with the seeds absent, every row
\* there, or a small store with partially populated rows.
RunStores ==
  {[t \in TrackIds |->
      IF t \notin present THEN NoRow
      ELSE IF t \in partial THEN WithNulls(CompleteRow(t), {"tempo_bpm", "energy"})
      ELSE CompleteRow(t)] :
     <<present, partial>> \in
       {<<{"c1", "c2", "c3", "c4", "c5"}, {}>>,
        <<TrackIds, {}>>,
        <<{"c1", "c4", "c5", "t1"}, {"t1", "c5"}>>}}

RunPlaylists == {{}, {"c1"}}

\* Arguments a run is started with: every combination in liked_songs and track
\* mode, the other modes without limit and genre matching, and the calls that
\* cannot start (too few liked songs, no source_url).
RunArgs ==
  {a \in [generation_mode : Modes, max_songs : 1..MaxSongs,
          max_follower_count : {NoLimit, 1000}, min_liked_songs : {1, 3},
          enable_genre_matching : BOOLEAN, source_url : BOOLEAN] :
     \/ /\ a.generation_mode = "liked_songs"
        /\ a.source_url
        /\ a.min_liked_songs = 3 =>
             (a.max_songs = 1 /\ a.max_follower_count = NoLimit /\ ~a.enable_genre_matching)
     \/ /\ a.generation_mode = "track"
        /\ a.min_liked_songs = 3
        /\ ~a.source_url =>
             (a.max_songs = 1 /\ a.max_follower_count = NoLimit /\ ~a.enable_genre_matching)
     \/ /\ a.generation_mode \in {"artist", "album", "playlist"}
        /\ a.min_liked_songs = 3
        /\ a.source_url
        /\ a.max_follower_count = NoLimit
        /\ ~a.enable_genre_matching}

\* The parameters of run_enhanced_recommendation_script; the first two have no
\* default.
Parameters ==
  {"sp", "output_playlist_id", "max_songs", "lastfm_username", "max_follower_count",
   "min_liked_songs", "generation_mode", "source_url", "job_id", "running_jobs",
   "enable_genre_matching"}

Required == {"sp", "output_playlist_id"}

\* The keyword arguments of the call in app.py and of the call in
\* test_playlist_generation.py.
AppKeywords ==
  {"sp", "output_playlist_id", "max_songs", "lastfm_username", "max_follower_count"}

TestKeywords ==
  {"sp", "output_playlist_id", "max_songs", "lastfm_username", "max_follower_count",
   "min_liked_songs", "generation_mode", "source_url", "enable_genre_matching",
   "exclude_liked_songs", "genre_matching_mode", "create_new_playlist"}

\* Python binds a call's keyword arguments to the parameters before the body
\* runs; a keyword that names no parameter, or a parameter left without a value,
\* raises TypeError in the caller.
Binds(keywords) == keywords \subseteq Parameters /\ Required \subseteq keywords

\* The locals of a run started with arguments a, before its first statement.
NewRun(a) ==
  [pc |-> "start", generation_mode |-> a.generation_mode,
   max_songs |-> a.max_songs, max_follower_count |-> a.max_follower_count,
   min_liked_songs |-> a.min_liked_songs,
   enable_genre_matching |-> a.enable_genre_matching,
   source_url |-> a.source_url, keywords |-> Parameters,
   failures |-> 0, budget |-> MaxFailures,
   conn_open |-> FALSE, seed_track_ids |-> <<>>, artist_ids |-> {},
   liked_songs_artist_ids |-> {}, liked_track_ids |-> {},
   playlist_track_ids |-> {}, existing_artist_ids |-> {},
   rolled_artist_ids |-> {}, lottery_winners |-> <<>>, idx |-> 1,
   selected_tracks |-> <<>>, added_songs |-> <<>>,
   seen_artist_ids |-> {}, all_excluded_track_ids |-> {},
   winner_aid |-> "", seed_track_id |-> "", retry_count |-> 0,
   seed_genres |-> <<>>, features |-> NoFeatures,
   similar_tracks |-> <<>>, ci |-> 1,
   val |-> NoValidation, result |-> NoResult]

InitRun ==
  /\ store \in RunStores
  /\ audio_available = TRUE
  /\ playlist \in RunPlaylists
  /\ knn = KnnIdle
  /\ ens = NoEnsure
  /\ add = NoAdd
  /\ lite = LiteIdle
  /\ batch = BatchIdle
  /\ safe = SafeIdle
  /\ dl = DlIdle
  /\ sim = SimIdle
  /\ fetch = FetchIdle
  /\ locks = LocksIdle
  /\ \E a \in RunArgs : run = NewRun(a)

\* A collaborator call that works (TRUE) or fails (FALSE); run.failures counts
\* the failures of the run, run.budget bounds them.
Cost(ok) == IF ok THEN 0 ELSE 1

MayFail(r, n) == r.failures + n <= r.budget

\* Lines 1865-1995: connect, read the source, fetch the exclusion sets.  A page
\* of the liked songs or of the playlist that cannot be read ends its loop like
\* an empty page does (if not results ...: break): the set stays as read so far.
RunStart ==
  /\ run.pc = "start"
  /\ \E connect_ok \in BOOLEAN, source_ok \in BOOLEAN,
        liked_ok \in BOOLEAN, playlist_ok \in BOOLEAN :
       LET artists_data == build_artist_list_from_liked_songs(run.min_liked_songs)
           seeds == IF source_ok THEN SourceTracks(run.generation_mode) ELSE <<>>
           n == Cost(connect_ok) + Cost(source_ok) + Cost(liked_ok) + Cost(playlist_ok)
           fail(error) == [run EXCEPT !.pc = "done", !.result = Failure(error),
                                      !.failures = @ + n]
           starts == /\ connect_ok
                     /\ IF run.generation_mode = "liked_songs" THEN artists_data # {}
                        ELSE run.source_url /\ seeds # <<>>
           playlist_items == IF playlist_ok THEN playlist ELSE {}
       IN  /\ MayFail(run, n)
           /\ (~source_ok => connect_ok /\ run.generation_mode # "liked_songs" /\ run.source_url)
           /\ (~liked_ok \/ ~playlist_ok => starts)
           /\ run' =
                IF ~connect_ok THEN fail("Could not connect to audio features database")
                ELSE IF run.generation_mode = "liked_songs" /\ artists_data = {}
                  THEN fail("No artists found")
                ELSE IF run.generation_mode # "liked_songs" /\ ~run.source_url
                  THEN fail("Source URL is required")
                ELSE IF run.generation_mode # "liked_songs" /\ seeds = <<>>
                  THEN fail("No tracks found from source")
                ELSE [run EXCEPT
                        !.pc = "lottery", !.conn_open = TRUE, !.failures = @ + n,
                        !.seed_track_ids = IF run.generation_mode = "liked_songs"
                                             THEN <<>> ELSE seeds,
                        !.artist_ids = IF run.generation_mode = "liked_songs"
                                         THEN artists_data ELSE {},
                        !.liked_songs_artist_ids =
                           IF liked_ok THEN FetchLikedArtistIds ELSE {},
                        !.liked_track_ids = IF liked_ok THEN FetchLikedTrackIds ELSE {},
                        !.playlist_track_ids = playlist_items,
                        !.existing_artist_ids = build_existing_artist_ids(playlist_items)]
  /\ UNCHANGED <<store, audio_available, knn, ens, add, playlist, lite, batch, safe, dl, sim, fetch, locks>>

\* rolled_artist_ids.add(selected_aid), forgotten.
RetireNothing(rolled_artist_ids, selected_aid) == rolled_artist_ids

\* rolled_artist_ids.add(selected_aid): the drawn artist is never rolled again.
Retire(rolled_artist_ids, selected_aid) == rolled_artist_ids \cup {selected_aid}

\* Lines 1998-2037: one draw of the lottery (liked_songs: a weighted draw among
\* the artists not yet rolled; other modes: random.choice of a seed track).
RunDraw ==
  /\ run.pc = "lottery"
  /\ Len(run.lottery_winners) < run.max_songs
  /\ \/ /\ run.generation_mode = "liked_songs"
        /\ \E selected_aid \in run.artist_ids \ run.rolled_artist_ids :
             run' = [run EXCEPT
                       !.rolled_artist_ids = Retire(@, selected_aid),
                       !.lottery_winners = Append(@, selected_aid)]
     \/ /\ run.generation_mode # "liked_songs"
        /\ \E selected_track_id \in SeqSet(run.seed_track_ids) :
             run' = [run EXCEPT !.lottery_winners = Append(@, selected_track_id)]
  /\ UNCHANGED <<store, audio_available, knn, ens, add, playlist, lite, batch, safe, dl, sim, fetch, locks>>

\* Lines 2010-2015 and 2039-2043: the draws are over; the run's exclusion state
\* is set up.
RunLotteryDone ==
  /\ run.pc = "lottery"
  /\ \/ Len(run.lottery_winners) >= run.max_songs
     \/ /\ run.generation_mode = "liked_songs"
        /\ run.artist_ids \ run.rolled_artist_ids = {}
  /\ run' = [run EXCEPT
               !.pc = "loop", !.idx = 1,
               !.seen_artist_ids = run.existing_artist_ids,
               !.all_excluded_track_ids =
                  InitialExcluded(run.liked_track_ids, run.playlist_track_ids)]
  /\ UNCHANGED <<store, audio_available, knn, ens, add, playlist, lite, batch, safe, dl, sim, fetch, locks>>

\* A winner that gives no seed ending the whole run (break instead of continue).
AbandonRun(r) == [r EXCEPT !.pc = "finish"]

\* continue: on to the next winner.
NextWinner(r) == [r EXCEPT !.pc = "loop", !.idx = @ + 1]

\* Lines 2045-2089: the head of the loop over the winners, and the seed track of
\* the winner (liked_songs: its first liked track, if the library can be read).
RunLoopHead ==
  /\ run.pc = "loop"
  /\ \/ /\ \/ run.idx > Len(run.lottery_winners)
           \/ Len(run.selected_tracks) >= run.max_songs
        /\ run' = [run EXCEPT !.pc = "finish"]
     \/ /\ run.idx <= Len(run.lottery_winners)
        /\ Len(run.selected_tracks) < run.max_songs
        /\ run.generation_mode = "liked_songs"
        /\ \E fetch_ok \in BOOLEAN :
             LET winner == run.lottery_winners[run.idx]
                 seed == IF fetch_ok THEN FirstLikedTrackOf(winner, "") ELSE ""
                 r == [run EXCEPT !.winner_aid = winner, !.seed_track_id = seed,
                                  !.retry_count = 0, !.failures = @ + Cost(fetch_ok)]
             IN  /\ MayFail(run, Cost(fetch_ok))
                 /\ run' = IF seed = "" THEN NextWinner(r) ELSE [r EXCEPT !.pc = "ensure"]
     \/ /\ run.idx <= Len(run.lottery_winners)
        /\ Len(run.selected_tracks) < run.max_songs
        /\ run.generation_mode # "liked_songs"
        /\ run' = [run EXCEPT !.pc = "ensure", !.retry_count = 0,
                              !.seed_track_id = run.lottery_winners[run.idx]]
  /\ UNCHANGED <<store, audio_available, knn, ens, add, playlist, lite, batch, safe, dl, sim, fetch, locks>>

\* Lines 2098-2155: one turn of the retry loop: ensure_track_in_db on the seed,
\* and on failure the choice of another seed for the same winner.
RunEnsure ==
  /\ run.pc = "ensure"
  /\ \E sc \in EnsureScenarios, fetch_ok \in BOOLEAN :
       LET r == ensure_track_in_db(store, run.seed_track_id, audio_available,
                                   sc.check_ok, sc.oc, sc.write_ok)
           retry_count == run.retry_count + 1
           n == Cost(sc = AllOk) + Cost(fetch_ok)
           base == [run EXCEPT !.failures = @ + n]
       IN  /\ MayFail(run, n)
           /\ store' = r.store
           /\ ens' = EnsureLog(r, store)
           /\ add' = AddLogOfEnsure(r, store, sc.write_ok)
           /\ IF r.ret
                THEN fetch_ok /\ run' = [base EXCEPT !.pc = "query"]
              ELSE IF retry_count >= max_retries
                THEN fetch_ok /\ run' = NextWinner([base EXCEPT !.retry_count = retry_count])
              ELSE IF run.generation_mode = "liked_songs"
                THEN LET seed == IF fetch_ok
                                   THEN FirstLikedTrackOf(run.winner_aid, run.seed_track_id)
                                   ELSE ""
                         rr == [base EXCEPT !.retry_count = retry_count,
                                            !.seed_track_id = seed]
                     IN  run' = IF seed = "" THEN NextWinner(rr) ELSE rr
              ELSE LET available_seeds ==
                         SeqSet(run.seed_track_ids) \ {run.seed_track_id}
                   IN  /\ fetch_ok
                       /\ IF available_seeds = {}
                            THEN run' = NextWinner([base EXCEPT !.retry_count = retry_count])
                            ELSE \E seed \in available_seeds :
                                   run' = [base EXCEPT !.retry_count = retry_count,
                                                       !.seed_track_id = seed]
  /\ UNCHANGED <<audio_available, knn, playlist, lite, batch, safe, dl, sim, fetch, locks>>

\* normalize_genre: lower-case, strip, and the table of common mappings.
normalize_genre(genre) ==
  CASE genre = "Hip Hop" -> "hip-hop"
    [] genre = "hip hop" -> "hip-hop"
    [] OTHER -> genre

\* check_genre_match comparing the genres as they come, not normalized.
GenreMatchAsWritten(seed_genres, candidate_genres) ==
  IF seed_genres = <<>> \/ candidate_genres = <<>> THEN TRUE
  ELSE SeqSet(seed_genres) \cap SeqSet(candidate_genres) # {}

\* check_genre_match: no data on either side passes; otherwise the normalized
\* sets must share a genre.
check_genre_match(seed_genres, candidate_genres) ==
  IF seed_genres = <<>> \/ candidate_genres = <<>> THEN TRUE
  ELSE {normalize_genre(g) : g \in SeqSet(seed_genres)}
         \cap {normalize_genre(g) : g \in SeqSet(candidate_genres)} # {}

\* The checks of lines 2228-2260.  Each is evaluated only where the code
\* evaluates it: 1 and 2 in liked_songs mode, 4 with a follower limit, 5 with
\* genre matching on.
CheckApplies(name, r) ==
  CASE name = "self_artist" -> r.generation_mode = "liked_songs"
    [] name = "liked_artist" -> r.generation_mode = "liked_songs"
    [] name = "playlist_artist" -> TRUE
    [] name = "follower" -> r.max_follower_count # NoLimit
    [] name = "genre" -> r.enable_genre_matching

\* 1. not from the seed artist
SelfArtistCheck(r, c) == r.winner_aid \notin ArtistSet(c)

\* 2. no artist of the candidate among the liked songs' artists
NoLikedArtistCheck(r, c) == TRUE

LikedArtistCheck(r, c) == ArtistSet(c) \cap r.liked_songs_artist_ids = {}

\* 3. no artist of the candidate already in the playlist or accepted
PlaylistArtistCheck(r, c) == ArtistSet(c) \cap r.seen_artist_ids = {}

\* Check 4 left out.
NoFollowerCheck(r, c, profile_ok) == TRUE

\* 4. the main artist's followers; a profile that cannot be fetched passes
FollowerCheck(r, c, profile_ok) ==
  ~profile_ok \/ Followers(TrackArtists(c)[1]) <= r.max_follower_count

\* 5. genres of the seed artist against the candidate's main artist
GenreCheck(r, c) == check_genre_match(r.seed_genres, ArtistGenres(TrackArtists(c)[1]))

CheckPasses(name, r, c, profile_ok) ==
  CASE name = "self_artist" -> SelfArtistCheck(r, c)
    [] name = "liked_artist" -> LikedArtistCheck(r, c)
    [] name = "playlist_artist" -> PlaylistArtistCheck(r, c)
    [] name = "follower" -> FollowerCheck(r, c, profile_ok)
    [] name = "genre" -> GenreCheck(r, c)

\* The order the checks stand in.
FollowerFirstOrder ==
  <<"follower", "self_artist", "liked_artist", "playlist_artist", "genre">>

ValidationOrder ==
  <<"self_artist", "liked_artist", "playlist_artist", "follower", "genre">>

\* The checks evaluated for candidate c, in order, each with its outcome: the
\* chain stops at the first that fails (continue).
RECURSIVE EvalChain(_, _, _, _)
EvalChain(i, r, c, profile_ok) ==
  IF i > Len(ValidationOrder) THEN <<>>
  ELSE IF ~CheckApplies(ValidationOrder[i], r) THEN EvalChain(i + 1, r, c, profile_ok)
  ELSE IF CheckPasses(ValidationOrder[i], r, c, profile_ok)
    THEN <<[name |-> ValidationOrder[i], pass |-> TRUE]>> \o EvalChain(i + 1, r, c, profile_ok)
  ELSE <<[name |-> ValidationOrder[i], pass |-> FALSE]>>

ChainPasses(checks) == \A i \in 1..Len(checks) : checks[i].pass

Evaluated(checks, name) == \E i \in 1..Len(checks) : checks[i].name = name

\* Lines 2157-2211: the seed's display name and genres, its row read back as the
\* feature dict, and the similarity query.
RunQuery ==
  /\ run.pc = "query"
  /\ \E info_ok \in BOOLEAN, read_ok \in BOOLEAN, db_ok \in BOOLEAN :
       LET seed == run.seed_track_id
           n == Cost(info_ok) + Cost(read_ok) + Cost(db_ok)
           base == [run EXCEPT !.failures = @ + n]
           seed_genres ==
             IF run.generation_mode = "liked_songs" THEN ArtistGenres(run.winner_aid)
             ELSE IF info_ok THEN ArtistGenres(TrackArtists(seed)[1])
             ELSE <<>>
           features == RowFeatures(store[seed])
       IN  /\ MayFail(run, n)
           /\ (~info_ok => run.generation_mode # "liked_songs")
           /\ (~read_ok => db_ok)
           /\ IF ~read_ok \/ store[seed] = NoRow
                THEN run' = NextWinner([base EXCEPT !.seed_genres = seed_genres])
                ELSE \E similar_tracks \in
                          find_most_similar_track_in_db(store, features,
                               run.all_excluded_track_ids, run_max_results, db_ok) :
                       LET r == [base EXCEPT !.seed_genres = seed_genres,
                                             !.features = features,
                                             !.similar_tracks = similar_tracks,
                                             !.ci = 1, !.val = NoValidation]
                       IN  run' = IF similar_tracks = <<>> THEN NextWinner(r)
                                  ELSE [r EXCEPT !.pc = "validate"]
  /\ UNCHANGED <<store, audio_available, knn, ens, add, playlist, lite, batch, safe, dl, sim, fetch, locks>>

\* A rejection that also puts the candidate among the excluded tracks.
SkipAndExclude(r) ==
  LET n == IF r.ci + 1 > Len(r.similar_tracks) THEN NextWinner(r) ELSE [r EXCEPT !.ci = @ + 1]
  IN  [n EXCEPT !.all_excluded_track_ids = @ \cup {r.similar_tracks[r.ci].id}]

\* continue in the loop over the candidates: the next one, or the end of the list.
SkipCandidate(r) ==
  IF r.ci + 1 > Len(r.similar_tracks) THEN NextWinner(r) ELSE [r EXCEPT !.ci = @ + 1]

\* What follows an acceptance: break.
ContinueAfterAccept(r) == SkipCandidate(r)

AfterAccept(r) == NextWinner(r)

\* Lines 2262-2273: the candidate is accepted.
Accept(r, c) ==
  [r EXCEPT !.selected_tracks = Append(@, c),
            !.all_excluded_track_ids = @ \cup {c},
            !.seen_artist_ids = @ \cup ArtistSet(c),
            !.added_songs = Append(@, [id |-> c, based_on |-> r.seed_track_id,
                                       winner |-> r.idx])]

\* Lines 2213-2276: one candidate of the ranked list.
RunValidate ==
  /\ run.pc = "validate"
  /\ \E track_ok \in BOOLEAN, profile_ok \in BOOLEAN :
       LET candidate == run.similar_tracks[run.ci]
           c == candidate.id
           checks == EvalChain(1, run, c, profile_ok)
           n == Cost(track_ok) + Cost(profile_ok)
           base == [run EXCEPT !.failures = @ + n]
           validated ==
             [base EXCEPT !.val = [id |-> c, checks |-> checks,
                                   follower_fetch |-> Evaluated(checks, "follower"),
                                   genre_fetch |-> Evaluated(checks, "genre"),
                                   seen_before |-> run.seen_artist_ids,
                                   profile_ok |-> profile_ok,
                                   winner_aid |-> run.winner_aid,
                                   seed_genres |-> run.seed_genres]]
       IN  /\ MayFail(run, n)
           \* the profile is fetched, and so can fail, only where check 4 is reached
           /\ (~profile_ok => track_ok /\ c \notin run.all_excluded_track_ids
                                /\ Evaluated(checks, "follower"))
           /\ (~track_ok => c \notin run.all_excluded_track_ids)
           /\ run' =
                IF c \in run.all_excluded_track_ids THEN SkipCandidate(base)
                ELSE IF ~track_ok THEN SkipCandidate(base)
                ELSE IF ~ChainPasses(checks) THEN SkipCandidate(validated)
                ELSE IF candidate.similarity_distance = NULL
                  \* the [SUCCESS] line formats the distance with :.4f: None raises,
                  \* and the handler of line 2305 returns the failure shape
                  THEN [Accept(validated, c) EXCEPT
                          !.pc = "done", !.conn_open = FALSE,
                          !.result = Failure("exception")]
                ELSE AfterAccept(Accept(validated, c))
  /\ UNCHANGED <<store, audio_available, knn, ens, add, playlist, lite, batch, safe, dl, sim, fetch, locks>>

\* Lines 2278-2303: close the connection, append the selected tracks, return.
RunFinish ==
  /\ run.pc = "finish"
  /\ \E add_ok \in BOOLEAN :
       /\ MayFail(run, Cost(add_ok))
       /\ (~add_ok => run.selected_tracks # <<>>)
       /\ playlist' = IF add_ok THEN playlist \cup SeqSet(run.selected_tracks) ELSE playlist
       /\ run' = [run EXCEPT !.pc = "done", !.conn_open = FALSE,
                             !.failures = @ + Cost(add_ok),
                             !.result = [success |-> TRUE,
                                         tracks_added |-> Len(run.selected_tracks),
                                         error |-> ""]]
  /\ UNCHANGED <<store, audio_available, knn, ens, add, lite, batch, safe, dl, sim, fetch, locks>>

NextRun ==
  \/ RunStart
  \/ RunDraw
  \/ RunLotteryDone
  \/ RunLoopHead
  \/ RunEnsure
  \/ RunQuery
  \/ RunValidate
  \/ RunFinish

SpecRun == InitRun /\ [][NextRun]_vars

\* The call itself: the arguments bind and the body starts, or TypeError
\* leaves the call.
RunCall ==
  /\ run.pc = "call"
  /\ run' = [run EXCEPT !.pc = IF Binds(run.keywords) THEN "start" ELSE "raised"]
  /\ UNCHANGED <<store, audio_available, knn, ens, add, playlist, lite, batch, safe, dl, sim, fetch, locks>>

\* Calls as the repository makes them, with the keywords of app.py or of
\* test_playlist_generation.py, and calls that name every parameter.
InitCall ==
  /\ store \in RunStores
  /\ audio_available = TRUE
  /\ playlist \in RunPlaylists
  /\ knn = KnnIdle
  /\ ens = NoEnsure
  /\ add = NoAdd
  /\ lite = LiteIdle
  /\ batch = BatchIdle
  /\ safe = SafeIdle
  /\ dl = DlIdle
  /\ sim = SimIdle
  /\ fetch = FetchIdle
  /\ locks = LocksIdle
  /\ \E a \in RunArgs, keywords \in {AppKeywords, TestKeywords, Parameters} :
       /\ a.generation_mode \in {"liked_songs", "playlist"}
       \* app.py leaves the mode, the minimum and genre matching at their defaults
       /\ keywords = AppKeywords =>
            /\ a.generation_mode = "liked_songs"
            /\ a.min_liked_songs = 3
            /\ ~a.enable_genre_matching
       /\ keywords = TestKeywords => a.generation_mode = "playlist"
       /\ run = [NewRun(a) EXCEPT !.pc = "call", !.keywords = keywords]

NextCall ==
  \/ RunCall
  \/ NextRun

SpecCall == InitCall /\ [][NextCall]_vars

\* Runs with a follower ceiling, in liked_songs and in track mode.
InitCeiling ==
  /\ store \in RunStores
  /\ audio_available = TRUE
  /\ playlist \in RunPlaylists
  /\ knn = KnnIdle
  /\ ens = NoEnsure
  /\ add = NoAdd
  /\ lite = LiteIdle
  /\ batch = BatchIdle
  /\ safe = SafeIdle
  /\ dl = DlIdle
  /\ sim = SimIdle
  /\ fetch = FetchIdle
  /\ locks = LocksIdle
  /\ \E a \in RunArgs :
       /\ a.max_follower_count # NoLimit
       /\ a.source_url
       /\ run = NewRun(a)

SpecCeiling == InitCeiling /\ [][NextRun]_vars

\* Runs with genre matching enabled.
InitGenre ==
  /\ store \in RunStores
  /\ audio_available = TRUE
  /\ playlist \in RunPlaylists
  /\ knn = KnnIdle
  /\ ens = NoEnsure
  /\ add = NoAdd
  /\ lite = LiteIdle
  /\ batch = BatchIdle
  /\ safe = SafeIdle
  /\ dl = DlIdle
  /\ sim = SimIdle
  /\ fetch = FetchIdle
  /\ locks = LocksIdle
  /\ \E a \in RunArgs :
       /\ a.enable_genre_matching
       /\ a.source_url
       /\ run = NewRun(a)

SpecGenre == InitGenre /\ [][NextRun]_vars

\* Runs in which the seeds of a winner may fail one after the other: the seeds
\* are not in the store, and the collaborators may fail as often as the retry
\* loop allows attempts.
RetryArgs ==
  {a \in RunArgs : /\ a.generation_mode \in {"liked_songs", "artist"}
                   /\ a.max_songs <= 2
                   /\ a.max_follower_count = NoLimit
                   /\ ~a.enable_genre_matching
                   /\ a.source_url
                   /\ a.generation_mode = "liked_songs" => a.min_liked_songs = 1}

InitRetry ==
  /\ store = [t \in TrackIds |->
                IF t \in {"c1", "c2", "c3", "c4", "c5"} THEN CompleteRow(t) ELSE NoRow]
  /\ audio_available = TRUE
  /\ playlist = {}
  /\ knn = KnnIdle
  /\ ens = NoEnsure
  /\ add = NoAdd
  /\ lite = LiteIdle
  /\ batch = BatchIdle
  /\ safe = SafeIdle
  /\ dl = DlIdle
  /\ sim = SimIdle
  /\ fetch = FetchIdle
  /\ locks = LocksIdle
  /\ \E a \in RetryArgs : run = [NewRun(a) EXCEPT !.budget = max_retries]

SpecRetry == InitRetry /\ [][NextRun]_vars

\* ------------------------------------------------------ claims about the run
AcceptedIds == SeqSet(run.selected_tracks)

\* C1: while the run selects, no two accepted tracks share an artist, and no
\* accepted track has an artist of a track that is in the destination playlist.
C1_OneTrackPerArtist ==
  run.pc # "done" =>
    /\ \A i, j \in 1..Len(run.selected_tracks) :
         i # j => ArtistSet(run.selected_tracks[i])
                    \cap ArtistSet(run.selected_tracks[j]) = {}
    /\ \A t \in AcceptedIds : ArtistSet(t) \cap build_existing_artist_ids(playlist) = {}

\* C2: while the run selects, no accepted track is a liked track or a track of
\* the destination playlist, no track is accepted twice, and the exclusion set
\* holds all it started with and every accepted track (it has only grown).
C2_NoExcludedTrackAccepted ==
  run.pc \notin {"start", "lottery", "done"} =>
    /\ AcceptedIds \cap (FetchLikedTrackIds \cup playlist) = {}
    /\ Cardinality(AcceptedIds) = Len(run.selected_tracks)
    /\ InitialExcluded(run.liked_track_ids, run.playlist_track_ids) \cup AcceptedIds
         \subseteq run.all_excluded_track_ids

\* C3 as stated: in every mode, no accepted track has an artist among the liked
\* songs' artists.
C3_LikedArtistExclusion_AllModes ==
  \A t \in AcceptedIds : ArtistSet(t) \cap run.liked_songs_artist_ids = {}

\* C3, amended: in liked_songs mode, no accepted track has an artist among the
\* liked songs' artists.
C3_LikedArtistExclusion ==
  run.generation_mode = "liked_songs" =>
    \A t \in AcceptedIds : ArtistSet(t) \cap run.liked_songs_artist_ids = {}

\* A liked_songs run that accepted a track from a list in which a track by a
\* liked artist ranked before it.
C3_Witness ==
  /\ run.generation_mode = "liked_songs"
  /\ run.val.id # ""
  /\ run.selected_tracks # <<>>
  /\ run.selected_tracks[Len(run.selected_tracks)] = run.val.id
  /\ run.similar_tracks[run.ci].id = run.val.id
  /\ \E k \in 1..(run.ci - 1) :
       ArtistSet(run.similar_tracks[k].id) \cap run.liked_songs_artist_ids # {}

\* The place of a check in the order the claim gives.
CheckRank(name) ==
  CASE name = "self_artist" -> 1
    [] name = "liked_artist" -> 2
    [] name = "playlist_artist" -> 3
    [] name = "follower" -> 4
    [] name = "genre" -> 5

\* Checks 1-3 as they stood when the candidate of run.val was validated.
PassedArtistChecks ==
  /\ run.generation_mode = "liked_songs" =>
       /\ run.val.winner_aid \notin ArtistSet(run.val.id)
       /\ ArtistSet(run.val.id) \cap run.liked_songs_artist_ids = {}
  /\ ArtistSet(run.val.id) \cap run.val.seen_before = {}

\* C4: the checks evaluated for a candidate stand in the order self-artist,
\* liked-artist, playlist-duplication, follower, genre; none is evaluated after
\* one that failed; the follower fetch is made only for a candidate that passed
\* checks 1-3, the genre fetch only for one that also passed the follower check.
C4_CheckOrderShortCircuit ==
  run.val.id # "" =>
    LET checks == run.val.checks IN
    /\ \A i, j \in 1..Len(checks) :
         i < j => /\ CheckRank(checks[i].name) < CheckRank(checks[j].name)
                  /\ checks[i].pass
    /\ run.val.follower_fetch => PassedArtistChecks
    /\ run.val.genre_fetch =>
         /\ PassedArtistChecks
         /\ run.max_follower_count # NoLimit =>
              \/ ~run.val.profile_ok
              \/ Followers(TrackArtists(run.val.id)[1]) <= run.max_follower_count

\* A candidate that failed the playlist-duplication check in a run with a
\* follower limit and genre matching on: neither fetch was made for it.
C4_Witness ==
  /\ run.val.id # ""
  /\ run.max_follower_count # NoLimit
  /\ run.enable_genre_matching
  /\ ArtistSet(run.val.id) \cap run.val.seen_before # {}
  /\ ~run.val.follower_fetch
  /\ ~run.val.genre_fetch

\* C5: the ranked list is in non-decreasing distance order and is walked from its
\* head one candidate at a time; a candidate that was fetched and skipped failed
\* a check; the one accepted is the one at the walk's position and passed every
\* check; nothing of the list is visited after an acceptance; no two accepted
\* tracks come from the same winner's list.
C5_FirstPassingCandidate ==
  /\ [](/\ \A i, j \in 1..Len(run.similar_tracks) :
             i < j => DistLeq(run.similar_tracks[i].similarity_distance,
                              run.similar_tracks[j].similarity_distance)
        /\ \A i, j \in 1..Len(run.added_songs) :
             i # j => run.added_songs[i].winner # run.added_songs[j].winner)
  /\ [][/\ (run.pc # "validate" /\ run'.pc = "validate") => run'.ci = 1
        /\ (run.pc = "validate" /\ run'.pc = "validate") =>
             /\ run'.ci = run.ci + 1
             /\ run'.similar_tracks = run.similar_tracks
             /\ run'.selected_tracks = run.selected_tracks
        /\ (run.pc = "validate" /\ run'.val # run.val
              /\ run'.selected_tracks = run.selected_tracks) =>
             /\ run'.val.id = run.similar_tracks[run.ci].id
             /\ ~ChainPasses(run'.val.checks)
        /\ run'.selected_tracks # run.selected_tracks =>
             /\ run.pc = "validate"
             /\ run'.selected_tracks =
                  Append(run.selected_tracks, run.similar_tracks[run.ci].id)
             /\ run'.val.id = run.similar_tracks[run.ci].id
             /\ ChainPasses(run'.val.checks)
             /\ run'.pc # "validate"]_vars

\* A track accepted from the third place or later of a list that goes on after it.
C5_Witness ==
  /\ run.pc = "loop"
  /\ run.val.id # ""
  /\ run.ci >= 3
  /\ run.ci < Len(run.similar_tracks)
  /\ run.similar_tracks[run.ci].id = run.val.id
  /\ run.selected_tracks # <<>>
  /\ run.selected_tracks[Len(run.selected_tracks)] = run.val.id

\* C8: a seed whose stored row is partially populated is resolved by extracting
\* its features again, and the feature dict a similarity query is made with has
\* no NULL in it.
C8_PartialSeedNotFound ==
  /\ (ens.track_id # "" /\ IsPartial(ens.before) /\ ens.ret) => ens.extract_calls > 0
  /\ run.pc = "validate" => \A k \in FeatureKeys : run.features[k] # NULL

\* C13: once a call of ensure_track_in_db has met the rate limit, the run
\* resolves no further seed and queries or validates nothing more: it is on its
\* way out with what it has.
C13_RateLimitEndsRun ==
  (ens.track_id # "" /\ ens.rate_limited) => run.pc \notin {"ensure", "query", "validate"}

\* ------------------------------------------------------------ run_lite_script
\* max_attempts = max_songs * 10
max_attempts_factor == 10

\* Artists that can be in the lottery pool: those of the catalogue and six more.
LiteArtists == ArtistIds \cup {"b1", "b2", "b3", "b4", "b5", "b6"}

\* Pools build_artist_list_from_liked_songs may return: none, a few artists, or
\* more artists than a run for one song makes attempts.
LitePools == {{}, {"a1"}, {"a1", "a2"}, {"a1", "a2", "a3"}, LiteArtists}

\* validate_track_lite without a follower limit: the track's first artist is not
\* an artist of the liked songs and not yet in the playlist.
validate_track_lite(track, existing_artist_ids, liked_songs_artist_ids) ==
  /\ TrackArtists(track)[1] \notin liked_songs_artist_ids
  /\ TrackArtists(track)[1] \notin existing_artist_ids

\* What select_track_for_artist_lite may come back with: a validated track, or
\* None ("" here); it may also raise.
SelectOutcomes(l) ==
  {"", "raise"} \cup
  {t \in {"c1", "c2", "c3", "c4", "c5"} :
     validate_track_lite(t, l.existing_artist_ids, l.liked_songs_artist_ids)}

InitLite ==
  /\ store \in {[t \in TrackIds |-> NoRow]}
  /\ audio_available = TRUE
  /\ playlist \in RunPlaylists
  /\ knn = KnnIdle
  /\ ens = NoEnsure
  /\ add = NoAdd
  /\ run = RunIdle
  /\ batch = BatchIdle
  /\ safe = SafeIdle
  /\ dl = DlIdle
  /\ sim = SimIdle
  /\ fetch = FetchIdle
  /\ locks = LocksIdle
  /\ \E max_songs \in 1..MaxSongs, artists_data \in LitePools :
       /\ artists_data = LiteArtists => (max_songs = 1 /\ playlist = {})
       /\ lite = [pc |-> "start", max_songs |-> max_songs, artists_data |-> artists_data,
                  liked_songs_artist_ids |-> {}, existing_artist_ids |-> {},
                  selected_tracks |-> <<>>, attempts |-> 0, rolled_artist_ids |-> {},
                  selected_aid |-> "", result |-> NoResult]

\* Lines 1693-1740: the listening data, the artist list, the playlist's artists.
LiteStart ==
  /\ lite.pc = "start"
  /\ \E listening_ok \in BOOLEAN, playlist_ok \in BOOLEAN :
       LET playlist_items == IF playlist_ok THEN playlist ELSE {} IN
       lite' =
         IF ~listening_ok
           THEN [lite EXCEPT !.pc = "done", !.result = Failure("exception")]
         ELSE IF lite.artists_data = {}
           THEN [lite EXCEPT !.pc = "done", !.result = Failure("No artists found")]
         ELSE [lite EXCEPT !.pc = "loop",
                           !.liked_songs_artist_ids = lite.artists_data,
                           !.existing_artist_ids = build_existing_artist_ids(playlist_items)]
  /\ UNCHANGED <<store, audio_available, knn, ens, add, playlist, run, batch, safe, dl, sim, fetch, locks>>

\* while len(selected_tracks) < max_songs and attempts < max_attempts
LiteLoopCondition(l) ==
  /\ Len(l.selected_tracks) < l.max_songs
  /\ l.attempts < l.max_songs * max_attempts_factor

\* Lines 1753-1776: the head of one turn of the loop: leave it, or draw an artist
\* among those not rolled yet and mark it rolled.
LiteDraw ==
  /\ lite.pc = "loop"
  /\ \/ /\ ~LiteLoopCondition(lite)
        /\ lite' = [lite EXCEPT !.pc = "finish"]
     \/ /\ LiteLoopCondition(lite)
        /\ lite.artists_data \ lite.rolled_artist_ids = {}
        /\ lite' = [lite EXCEPT !.pc = "finish", !.attempts = @ + 1]
     \/ /\ LiteLoopCondition(lite)
        /\ \E selected_aid \in lite.artists_data \ lite.rolled_artist_ids :
             lite' = [lite EXCEPT !.pc = "select", !.attempts = @ + 1,
                                  !.selected_aid = selected_aid,
                                  !.rolled_artist_ids = Retire(@, selected_aid)]
  /\ UNCHANGED <<store, audio_available, knn, ens, add, playlist, run, batch, safe, dl, sim, fetch, locks>>

\* Lines 1781-1795: the track found for the drawn artist, if any, is kept and
\* its artists join the playlist's; an exception ends the turn like no track.
LiteSelect ==
  /\ lite.pc = "select"
  /\ \E track \in SelectOutcomes(lite) :
       lite' =
         IF track \in {"", "raise"} THEN [lite EXCEPT !.pc = "loop"]
         ELSE [lite EXCEPT !.pc = "loop",
                           !.selected_tracks = Append(@, track),
                           !.existing_artist_ids = @ \cup ArtistSet(track)]
  /\ UNCHANGED <<store, audio_available, knn, ens, add, playlist, run, batch, safe, dl, sim, fetch, locks>>

\* Lines 1797-1821: the selected tracks are appended in one batch; the result.
LiteFinish ==
  /\ lite.pc = "finish"
  /\ \E add_ok \in BOOLEAN :
       /\ (~add_ok => lite.selected_tracks # <<>>)
       /\ playlist' = IF add_ok THEN playlist \cup SeqSet(lite.selected_tracks)
                      ELSE playlist
       /\ lite' = [lite EXCEPT !.pc = "done",
                               !.result = [success |-> TRUE,
                                           tracks_added |-> Len(lite.selected_tracks),
                                           error |-> ""]]
  /\ UNCHANGED <<store, audio_available, knn, ens, add, run, batch, safe, dl, sim, fetch, locks>>

NextLite ==
  \/ LiteStart
  \/ LiteDraw
  \/ LiteSelect
  \/ LiteFinish

SpecLite == InitLite /\ [][NextLite]_vars

\* run_lite_script keeps running until it returns.
SpecLiteFair == SpecLite /\ WF_vars(NextLite)

\* Either of the two lottery runs; the collaborators of the enhanced run all
\* work (its draws are over before the first of them is called).
InitDraws ==
  /\ store \in RunStores
  /\ audio_available = TRUE
  /\ playlist \in RunPlaylists
  /\ knn = KnnIdle
  /\ ens = NoEnsure
  /\ add = NoAdd
  /\ lite = LiteIdle
  /\ batch = BatchIdle
  /\ safe = SafeIdle
  /\ dl = DlIdle
  /\ sim = SimIdle
  /\ fetch = FetchIdle
  /\ locks = LocksIdle
  /\ \E a \in RunArgs : run = [NewRun(a) EXCEPT !.budget = 0]

InitLottery ==
  \/ InitDraws
  \/ InitLite

NextLottery ==
  \/ NextRun
  \/ NextLite

SpecLottery == InitLottery /\ [][NextLottery]_vars

\* --------------------------------------------- build_audio_features_database
\* Bounds: the liked songs the builder fetches, and the threads of its pool.
MaxTracks == 3
MaxThreads == 2

\* fetch_liked_songs: the tracks to process, in order (work item i is track i).
FetchedTracks == <<"t1", "t2", "t3", "c1", "c2", "c3">>

NoExit == 0 - 1

\* Where a work item is: queued, cancelled, at a statement of
\* process_single_track, or finished with what its future holds.
Running == {"check1", "check1_in", "skip", "skip_in", "check2", "check2_in",
            "search", "analyze", "insert", "insert_in"}

Finished == {"ok", "skipped", "rate_limited"}

\* A Lock that nobody looks at.
LockIgnored(lock) == TRUE

\* threading.Lock: 0 when free, else the work item whose worker holds it.
LockFree(lock) == lock = 0

\* The completeness check of a worker:
\* SELECT COUNT(*) ... AND tempo_bpm IS NOT NULL AND brightness_hz IS NOT NULL
\* AND warmth IS NOT NULL.
exists_and_complete(st, track_id) ==
  /\ st[track_id] # NoRow
  /\ \A c \in {"tempo_bpm", "brightness_hz", "warmth"} : st[track_id].f[c] # NULL

\* insert_track_to_db: INSERT ... ON CONFLICT (spotify_track_id) DO UPDATE SET
\* every feature column.
insert_track_to_db(st, track_id, features, youtube_title) ==
  [st EXCEPT ![track_id] = NewRow(features, youtube_title)]

InitBatch ==
  /\ store \in RunStores
  /\ audio_available = TRUE
  /\ playlist = {}
  /\ knn = KnnIdle
  /\ ens = NoEnsure
  /\ add = NoAdd
  /\ run = RunIdle
  /\ lite = LiteIdle
  /\ safe = SafeIdle
  /\ dl = DlIdle
  /\ sim = SimIdle
  /\ fetch = FetchIdle
  /\ locks = LocksIdle
  /\ \E n \in {0, MaxTracks}, num_threads \in 1..MaxThreads, overwrite \in BOOLEAN :
       batch = [pc |-> "start", tracks |-> SubSeq(FetchedTracks, 1, n),
                num_threads |-> num_threads, overwrite |-> overwrite,
                items |-> [i \in 1..n |-> "pending"], yielded |-> {},
                db_lock |-> 0, print_lock |-> 0, conn_open |-> FALSE,
                conn_users |-> {}, observed |-> FALSE, rate_limit_hit |-> FALSE,
                processed_count |-> 0, skipped_count |-> 0,
                exit_status |-> NoExit]

Items == DOMAIN batch.items

\* Lines 812-864: connect, fetch the liked songs, submit every track to the pool.
\* Without tracks the function returns and the script exits 0.
BatchStart ==
  /\ batch.pc = "start"
  /\ batch' = IF batch.tracks = <<>>
                THEN [batch EXCEPT !.pc = "exited", !.exit_status = 0]
                ELSE [batch EXCEPT !.pc = "collect", !.conn_open = TRUE]
  /\ UNCHANGED <<store, audio_available, knn, ens, add, playlist, run, lite, safe, dl, sim, fetch, locks>>

\* The pool is alive from the submits until the with block is left.
PoolAlive == batch.pc \in {"collect", "observed", "close", "exit"}

\* A thread of the pool takes the next queued work item (the queue is first in,
\* first out; a cancelled item is dropped) and enters process_single_track.
WorkerStart(i) ==
  /\ PoolAlive
  /\ batch.items[i] = "pending"
  /\ \A j \in Items : j < i => batch.items[j] # "pending"
  /\ Cardinality({j \in Items : batch.items[j] \in Running}) < batch.num_threads
  /\ batch' = [batch EXCEPT !.items[i] = IF batch.overwrite THEN "search" ELSE "check1"]
  /\ UNCHANGED <<store, audio_available, knn, ens, add, playlist, run, lite, safe, dl, sim, fetch, locks>>

\* with db_lock: entered; the statement on the shared connection is under way.
DbEnter(i, at, in) ==
  /\ PoolAlive
  /\ batch.items[i] = at
  /\ LockFree(batch.db_lock)
  /\ batch' = [batch EXCEPT !.items[i] = in, !.db_lock = i,
                            !.conn_users = @ \cup {i}]
  /\ UNCHANGED <<store, audio_available, knn, ens, add, playlist, run, lite, safe, dl, sim, fetch, locks>>

\* The statement is over and db_lock released, the item going on at next.
DbLeave(b, i, next) ==
  [b EXCEPT !.items[i] = next, !.conn_users = @ \ {i},
            !.db_lock = IF @ = i THEN 0 ELSE @]

\* Lines 706-720: the completeness check.  On a closed connection it raises,
\* which the worker's except Exception turns into (False, True).
WorkerCheck1(i) ==
  /\ PoolAlive
  /\ batch.items[i] = "check1_in"
  /\ batch' = DbLeave(batch, i,
                IF ~batch.conn_open THEN "skipped"
                ELSE IF exists_and_complete(store, batch.tracks[i]) THEN "skip"
                ELSE "check2")
  /\ UNCHANGED <<store, audio_available, knn, ens, add, playlist, run, lite, safe, dl, sim, fetch, locks>>

\* Lines 722-726: with print_lock: print, time.sleep(.1); return False, True.
WorkerSkipEnter(i) ==
  /\ PoolAlive
  /\ batch.items[i] = "skip"
  /\ LockFree(batch.print_lock)
  /\ batch' = [batch EXCEPT !.items[i] = "skip_in", !.print_lock = i]
  /\ UNCHANGED <<store, audio_available, knn, ens, add, playlist, run, lite, safe, dl, sim, fetch, locks>>

WorkerSkipLeave(i) ==
  /\ PoolAlive
  /\ batch.items[i] = "skip_in"
  /\ batch' = [batch EXCEPT !.items[i] = "skipped", !.print_lock = 0]
  /\ UNCHANGED <<store, audio_available, knn, ens, add, playlist, run, lite, safe, dl, sim, fetch, locks>>

\* Lines 727-740: the check for an incomplete row, which is then re-processed.
WorkerCheck2(i) ==
  /\ PoolAlive
  /\ batch.items[i] = "check2_in"
  /\ batch' = DbLeave(batch, i, IF ~batch.conn_open THEN "skipped" ELSE "search")
  /\ UNCHANGED <<store, audio_available, knn, ens, add, playlist, run, lite, safe, dl, sim, fetch, locks>>

\* Lines 742-750: search_youtube finds no video, raises YouTubeRateLimitError
\* (re-raised at line 776), or finds one.
WorkerSearch(i) ==
  /\ PoolAlive
  /\ batch.items[i] = "search"
  /\ \E next \in {"skipped", "rate_limited", "analyze"} :
       batch' = [batch EXCEPT !.items[i] = next]
  /\ UNCHANGED <<store, audio_available, knn, ens, add, playlist, run, lite, safe, dl, sim, fetch, locks>>

\* Lines 755-759: download_and_analyze_audio gives the features or None; the
\* YouTubeRateLimitError it raises inside is caught by its own except Exception
\* (line 499) and comes out as None too.
WorkerAnalyze(i) ==
  /\ PoolAlive
  /\ batch.items[i] = "analyze"
  /\ \E next \in {"skipped", "insert"} :
       batch' = [batch EXCEPT !.items[i] = next]
  /\ UNCHANGED <<store, audio_available, knn, ens, add, playlist, run, lite, safe, dl, sim, fetch, locks>>

\* Lines 761-773: the insert under db_lock; it fails on a closed connection or
\* when the statement raises.
WorkerInsert(i) ==
  /\ PoolAlive
  /\ batch.items[i] = "insert_in"
  /\ \E db_ok \in BOOLEAN :
       LET success == db_ok /\ batch.conn_open
           t == batch.tracks[i]
       IN  /\ store' = IF success
                         THEN insert_track_to_db(store, t, RawFeatures(t), t)
                         ELSE store
           /\ batch' = DbLeave(batch, i, IF success THEN "ok" ELSE "skipped")
  /\ UNCHANGED <<audio_available, knn, ens, add, playlist, run, lite, safe, dl, sim, fetch, locks>>

Worker(i) ==
  \/ WorkerStart(i)
  \/ DbEnter(i, "check1", "check1_in")
  \/ WorkerCheck1(i)
  \/ WorkerSkipEnter(i)
  \/ WorkerSkipLeave(i)
  \/ DbEnter(i, "check2", "check2_in")
  \/ WorkerCheck2(i)
  \/ WorkerSearch(i)
  \/ WorkerAnalyze(i)
  \/ DbEnter(i, "insert", "insert_in")
  \/ WorkerInsert(i)

\* Lines 867-875 and 876: as_completed hands over a finished future; its result
\* is counted, or its YouTubeRateLimitError reaches the except clause.
BatchCollect ==
  /\ batch.pc = "collect"
  /\ \E i \in Items \ batch.yielded :
       /\ batch.items[i] \in Finished
       /\ batch' = [batch EXCEPT
            !.yielded = @ \cup {i},
            !.processed_count = IF batch.items[i] = "ok" THEN @ + 1 ELSE @,
            !.skipped_count = IF batch.items[i] = "skipped" THEN @ + 1 ELSE @,
            !.observed = batch.items[i] = "rate_limited",
            !.pc = IF batch.items[i] = "rate_limited" THEN "observed" ELSE "collect"]
  /\ UNCHANGED <<store, audio_available, knn, ens, add, playlist, run, lite, safe, dl, sim, fetch, locks>>

\* f.cancel() on every future: a queued item is cancelled, a running or finished
\* one is not.
CancelAll(items) ==
  [i \in DOMAIN items |-> IF items[i] = "pending" THEN "cancelled" ELSE items[i]]

\* Lines 877-888: the except clause: the banner under print_lock,
\* rate_limit_hit = True, the cancel loop, break.
BatchAnnounce ==
  /\ batch.pc = "observed"
  /\ LockFree(batch.print_lock)
  /\ batch' = [batch EXCEPT !.rate_limit_hit = TRUE, !.items = CancelAll(@),
                            !.pc = "close"]
  /\ UNCHANGED <<store, audio_available, knn, ens, add, playlist, run, lite, safe, dl, sim, fetch, locks>>

\* Lines 894-895: if rate_limit_hit: conn.close().
BatchClose ==
  /\ batch.pc = "close"
  /\ batch' = [batch EXCEPT !.conn_open = FALSE, !.pc = "exit"]
  /\ UNCHANGED <<store, audio_available, knn, ens, add, playlist, run, lite, safe, dl, sim, fetch, locks>>

\* Leaving the with block without waiting for the pool.
NoWait(b) == TRUE

\* ThreadPoolExecutor.__exit__: shutdown(wait=True) returns when no work item is
\* queued or running any more.
AllWorkersDone(b) ==
  \A i \in DOMAIN b.items : b.items[i] \in Finished \cup {"cancelled"}

\* Lines 896-898: sys.exit(1) leaves the with block, which joins the pool;
\* SystemExit passes the except clauses of the script: exit status 1.
BatchExit ==
  /\ batch.pc = "exit"
  /\ AllWorkersDone(batch)
  /\ batch' = [batch EXCEPT !.pc = "exited", !.exit_status = 1]
  /\ UNCHANGED <<store, audio_available, knn, ens, add, playlist, run, lite, safe, dl, sim, fetch, locks>>

\* Lines 867-868 and 900-949: every future was handed over; the summary,
\* conn.close(), and the script's sys.exit(0).
BatchSummary ==
  /\ batch.pc = "collect"
  /\ batch.yielded = Items
  /\ batch' = [batch EXCEPT !.pc = "exited", !.conn_open = FALSE, !.exit_status = 0]
  /\ UNCHANGED <<store, audio_available, knn, ens, add, playlist, run, lite, safe, dl, sim, fetch, locks>>

NextBatch ==
  \/ BatchStart
  \/ \E i \in 1..MaxTracks : Worker(i)
  \/ BatchCollect
  \/ BatchAnnounce
  \/ BatchClose
  \/ BatchExit
  \/ BatchSummary

SpecBatch == InitBatch /\ [][NextBatch]_vars

\* Every thread of the process keeps running while it can take a step.
SpecBatchFair == SpecBatch /\ WF_vars(NextBatch)

\* C14: in both lottery runs the artist a draw selects was not rolled before and
\* is rolled from then on; the set of rolled artists never loses a member; the
\* winners of the enhanced run's artist lottery are distinct and all rolled.
C14_NoArtistDrawnTwice ==
  /\ []((run.pc # "idle" /\ run.generation_mode = "liked_songs") =>
          /\ \A i, j \in 1..Len(run.lottery_winners) :
               i # j => run.lottery_winners[i] # run.lottery_winners[j]
          /\ SeqSet(run.lottery_winners) \subseteq run.rolled_artist_ids)
  /\ [][/\ (lite.pc = "loop" /\ lite'.pc = "select") =>
             /\ lite'.selected_aid \notin lite.rolled_artist_ids
             /\ lite'.selected_aid \in lite'.rolled_artist_ids
        /\ (lite.pc \notin {"idle", "start"}) =>
             lite.rolled_artist_ids \subseteq lite'.rolled_artist_ids
        /\ (run.pc = "lottery" /\ run.generation_mode = "liked_songs"
              /\ Len(run'.lottery_winners) > Len(run.lottery_winners)) =>
             /\ run'.lottery_winners[Len(run'.lottery_winners)] \notin run.rolled_artist_ids
             /\ run'.lottery_winners[Len(run'.lottery_winners)] \in run'.rolled_artist_ids
        /\ (run.pc \notin {"idle", "start"}) =>
             run.rolled_artist_ids \subseteq run'.rolled_artist_ids]_vars

\* run_lite_script drew a second artist after the first gave no track, and that
\* one gave none either: both stay rolled.
C14_Witness ==
  /\ lite.pc = "loop"
  /\ Cardinality(lite.rolled_artist_ids) = 2
  /\ lite.attempts = 2
  /\ lite.selected_tracks = <<>>
  /\ lite.artists_data \ lite.rolled_artist_ids # {}

\* C15: run_lite_script on a pool of N artists makes at most N draws (the turn
\* that finds nobody left to draw is one more turn of the loop, not a draw), and
\* the run comes to its end.
C15_DrawsBoundedByPool ==
  /\ [](lite.pc \notin {"idle"} =>
          /\ lite.attempts <= Cardinality(lite.artists_data) + 1
          /\ lite.pc = "select" => lite.attempts <= Cardinality(lite.artists_data)
          /\ Cardinality(lite.rolled_artist_ids) <= Cardinality(lite.artists_data))
  /\ <>(lite.pc = "done")

\* A pool of three, each artist drawn once, none gave a track, and the loop is over.
C15_Witness ==
  /\ lite.pc = "finish"
  /\ Cardinality(lite.artists_data) = 3
  /\ lite.rolled_artist_ids = lite.artists_data
  /\ lite.selected_tracks = <<>>
  /\ lite.attempts = 4

\* C16: a run that has stopped selecting has as many tracks as asked for, or has
\* drawn every member of its pool.
C16_StopsAtTargetOrExhausted ==
  /\ run.pc = "finish" =>
       \/ Len(run.selected_tracks) = run.max_songs
       \/ IF run.generation_mode = "liked_songs"
            THEN run.artist_ids \subseteq run.rolled_artist_ids
            ELSE SeqSet(run.seed_track_ids) \subseteq SeqSet(run.lottery_winners)
  /\ lite.pc = "finish" =>
       \/ Len(lite.selected_tracks) = lite.max_songs
       \/ lite.artists_data \subseteq lite.rolled_artist_ids

\* C17: a winner gets at most max_retries (5) seed-resolution attempts: the
\* oracle is asked only while fewer than 5 attempts have failed.  A failed
\* attempt either tries another seed for the same winner or, when it was the
\* fifth or no other seed is left, abandons that winner only: the run goes on
\* to the next winner with its selection and its result untouched.
C17_FiveAttemptsThenNextWinner ==
  /\ [](/\ run.retry_count <= max_retries
        /\ run.pc = "ensure" => run.retry_count < max_retries)
  /\ [][(run.pc = "ensure" /\ ~ens'.ret) =>
          /\ run'.retry_count = run.retry_count + 1
          /\ run'.idx \in {run.idx, run.idx + 1}
          /\ run'.pc = IF run'.idx = run.idx THEN "ensure" ELSE "loop"
          /\ run'.retry_count = max_retries => run'.idx = run.idx + 1
          /\ run'.selected_tracks = run.selected_tracks
          /\ run'.lottery_winners = run.lottery_winners
          /\ run'.conn_open
          /\ run'.result = NoResult]_vars

\* The first winner was given up after five failed attempts, and the run is
\* resolving the seed of the second.
C17_Witness ==
  /\ run.pc = "ensure"
  /\ run.idx = 2
  /\ run.retry_count = 0
  /\ run.failures = max_retries
  /\ run.result = NoResult
  /\ ens.track_id # ""
  /\ ~ens.ret

\* C18: once the orchestrator of the batch builder has observed a rate-limit
\* signal, no queued work item begins execution.
C18_NoStartAfterSignal ==
  [][batch.pc \notin {"idle", "start"} /\ batch.observed =>
       \A i \in Items :
         batch.items[i] = "pending" => batch'.items[i] \in {"pending", "cancelled"}]_vars

\* C19: after a rate-limit signal the builder never exits 0, it leaves only
\* when no work item is running any more (an item in flight is never cancelled
\* but runs to its end), and it does leave, with exit status 1.
C19_SignalEndsInAbort ==
  /\ [](batch.pc \notin {"idle", "start"} =>
          /\ (\E i \in Items : batch.items[i] = "rate_limited") => batch.exit_status # 0
          /\ (batch.pc = "exited" /\ batch.observed) =>
               /\ batch.exit_status = 1
               /\ \A i \in Items : batch.items[i] \in Finished \cup {"cancelled"})
  /\ [][batch.pc \notin {"idle", "start"} =>
          \A i \in Items :
            batch.items[i] \in Running => batch'.items[i] \in Running \cup Finished]_vars
  /\ ((batch.pc \notin {"idle", "start"} /\ \E i \in Items : batch.items[i] = "rate_limited")
        ~> (batch.pc = "exited" /\ batch.exit_status = 1))

\* The builder has left with status 1 after a signal, and a work item that was
\* never handed over to the orchestrator ran to its end.
C19_Witness ==
  /\ batch.pc = "exited"
  /\ batch.exit_status = 1
  /\ \E i \in Items : batch.items[i] = "rate_limited" /\ i \in batch.yielded
  /\ \E j \in Items : batch.items[j] \in {"ok", "skipped"} /\ j \notin batch.yielded
  /\ \E k \in Items : batch.items[k] = "cancelled"

\* C20: at most one worker at a time executes a statement on the shared
\* connection, and the one that does holds db_lock.
C20_StoreAccessUnderDbLock ==
  batch.pc \notin {"idle", "start"} =>
    /\ Cardinality(batch.conn_users) <= 1
    /\ \A i \in batch.conn_users :
         batch.db_lock = i /\ batch.items[i] \in {"check1_in", "check2_in", "insert_in"}

\* One worker is writing its row while another waits for db_lock to read.
C20_Witness ==
  /\ batch.pc = "collect"
  /\ \E i \in Items :
       /\ batch.conn_users = {i}
       /\ batch.items[i] = "insert_in"
       /\ \E j \in Items \ {i} : batch.items[j] \in {"check1", "check2", "insert"}

\* C21: no exception leaves a top-level run function: a call never ends by
\* raising, and a run that is over has returned a result carrying success and
\* tracks_added.
C21_RunAlwaysReturnsResult ==
  /\ run.pc # "raised"
  /\ run.pc = "done" =>
       run.result.success \in BOOLEAN /\ run.result.tracks_added \in 0..run.max_songs
  /\ lite.pc = "done" =>
       lite.result.success \in BOOLEAN /\ lite.result.tracks_added \in 0..lite.max_songs

\* C22: a run that started (it drew its winners) and accepted no track returns
\* success = true with tracks_added = 0, and success = false is returned only by
\* a run that could not start.
C22_FailureOnlyBeforeStart ==
  run.pc = "done" =>
    /\ (run.lottery_winners # <<>> /\ run.selected_tracks = <<>>) =>
         (run.result.success /\ run.result.tracks_added = 0)
    /\ ~run.result.success => run.lottery_winners = <<>>

\* C23: in every reachable state of either run the number of accepted tracks is
\* at most max_songs, and the run's append to the destination playlist adds
\* between 0 and max_songs tracks and removes none.
C23_AtMostMaxSongs ==
  /\ [](/\ run.pc # "idle" => Len(run.selected_tracks) <= run.max_songs
        /\ lite.pc # "idle" => Len(lite.selected_tracks) <= lite.max_songs)
  /\ [][playlist' # playlist =>
          /\ playlist \subseteq playlist'
          /\ Cardinality(playlist' \ playlist) <=
               IF run.pc = "finish" THEN run.max_songs ELSE lite.max_songs]_vars

\* An enhanced run is over that reached its target of two tracks, both now in
\* the playlist.
C23_Witness ==
  /\ run.pc = "done"
  /\ run.max_songs = 2
  /\ Len(run.selected_tracks) = 2
  /\ run.result.tracks_added = 2
  /\ SeqSet(run.selected_tracks) \subseteq playlist

\* The last similarity query of the run came back empty although the store
\* holds candidates for it: the statement raised.
LastQueryFailed ==
  /\ run.features # NoFeatures
  /\ run.similar_tracks = <<>>
  /\ find_most_similar_track_in_db(store, run.features, run.all_excluded_track_ids,
                                   run_max_results, TRUE) # {<<>>}

\* C24: a run during which the store was unavailable, at the connect or for
\* a query, does not return the ordinary empty result (success = true with no
\* track and no error): its result reports the condition.
C24_StoreFailureReported ==
  /\ (run.pc = "done" /\ ~run.conn_open /\ run.lottery_winners = <<>>
        /\ run.result.error = "Could not connect to audio features database") =>
       ~run.result.success
  /\ (run.pc = "done" /\ LastQueryFailed) =>
       ~(run.result.success /\ run.result.tracks_added = 0 /\ run.result.error = "")

NormalizedGenres(genres) == {normalize_genre(g) : g \in SeqSet(genres)}

\* A candidate passes the genre comparison: a list is empty, or the normalized
\* sets share a genre.
GenresCompatible(seed_genres, candidate_genres) ==
  \/ seed_genres = <<>>
  \/ candidate_genres = <<>>
  \/ NormalizedGenres(seed_genres) \cap NormalizedGenres(candidate_genres) # {}

\* C26: wherever the run reaches check 5, check_genre_match passes the candidate
\* if and only if the seed's or the candidate's genre list is empty or the
\* normalized sets share a genre; and with genre matching enabled a candidate
\* whose lists are both non-empty and disjoint is never accepted.
C26_GenreMatch ==
  /\ []((run.pc # "idle" /\ run.val.id # "" /\ run.val.genre_fetch) =>
          LET checks == run.val.checks
              candidate_genres == ArtistGenres(TrackArtists(run.val.id)[1])
          IN  /\ checks[Len(checks)].name = "genre"
              /\ checks[Len(checks)].pass <=>
                   GenresCompatible(run.val.seed_genres, candidate_genres))
  /\ [][(/\ run.pc = "validate"
          /\ run.enable_genre_matching
          /\ Len(run'.selected_tracks) = Len(run.selected_tracks) + 1) =>
           LET c == run'.selected_tracks[Len(run'.selected_tracks)]
           IN  /\ run'.val.id = c
               /\ run'.val.genre_fetch
               /\ GenresCompatible(run.seed_genres, ArtistGenres(TrackArtists(c)[1]))]_vars

\* With genre matching on, c2 (jazz) was rejected against a seed with genres,
\* and c5 was accepted: its "hip-hop" matches the seed's "Hip Hop" once both
\* are normalized.
C26_Witness ==
  /\ run.enable_genre_matching
  /\ run.selected_tracks # <<>>
  /\ run.val.id = "c5"
  /\ run.selected_tracks[Len(run.selected_tracks)] = "c5"
  /\ run.val.genre_fetch
  /\ run.val.seed_genres = <<"Hip Hop", "rock">>
  /\ \E k \in 1..Len(run.similar_tracks) :
       k < run.ci /\ run.similar_tracks[k].id = "c2"

\* C27: a validation that rejects its candidate leaves the seen artist ids, the
\* excluded track ids and the accepted tracks as they were; once the run has
\* set them up, they change only in the step that accepts a candidate, by that
\* candidate and its artists.  The same holds of run_lite_script's
\* existing_artist_ids and selected_tracks.
C27_RejectionChangesNothing ==
  /\ [][(run.pc \in {"loop", "ensure", "query", "validate", "finish"}) =>
          IF run.pc = "validate" /\ run'.selected_tracks # run.selected_tracks
            THEN LET c == run.similar_tracks[run.ci].id
                 IN  /\ run'.selected_tracks = Append(run.selected_tracks, c)
                     /\ run'.all_excluded_track_ids = run.all_excluded_track_ids \cup {c}
                     /\ run'.seen_artist_ids = run.seen_artist_ids \cup ArtistSet(c)
            ELSE /\ run'.selected_tracks = run.selected_tracks
                 /\ run'.added_songs = run.added_songs
                 /\ run'.all_excluded_track_ids = run.all_excluded_track_ids
                 /\ run'.seen_artist_ids = run.seen_artist_ids
                 /\ run'.liked_songs_artist_ids = run.liked_songs_artist_ids]_vars
  /\ [][(lite.pc \in {"loop", "select", "finish"}
           /\ lite'.selected_tracks = lite.selected_tracks) =>
          /\ lite'.existing_artist_ids = lite.existing_artist_ids
          /\ lite'.liked_songs_artist_ids = lite.liked_songs_artist_ids]_vars

\* The run has just rejected a candidate that passed the track-level skip (its
\* checks were evaluated and one failed), with a track accepted before.
C27_Witness ==
  /\ run.pc = "validate"
  /\ run.val.id # ""
  /\ run.val.checks # <<>>
  /\ ~ChainPasses(run.val.checks)
  /\ run.ci > 1
  /\ run.similar_tracks[run.ci - 1].id = run.val.id
  /\ run.val.id \notin run.all_excluded_track_ids
  /\ run.selected_tracks # <<>>

\* ------------------------------------------------------------------------
\* safe_spotify_call (lite_script.py 676-701)
\* ------------------------------------------------------------------------

\* Line 678.
retries == 3

\* What one invocation of the wrapped call does: it returns ("ok"), raises a
\* SpotifyException with http_status 404, 429 or another status ("500"), or
\* raises some other Exception.
Responses == {"ok", "404", "429", "500", "exception"}

\* A call of safe_spotify_call about to enter its loop; responses[k] is what the
\* k-th invocation of func will do.
NewSafeCall(responses) ==
  [pc |-> "loop", responses |-> responses, attempt |-> 0, calls |-> 0,
   waits |-> <<>>, ret |-> "unset"]

\* Lines 682 and 696: the two except clauses together take every Exception.
CaughtSpotifyOnly(response) == response \in {"404", "429", "500"}
Caught(response) == response \in {"404", "429", "500", "exception"}

\* Line 683: a 404 is "not found"; the mutant lets it fall to the else branch.
NotFoundRetried(response) == FALSE
NotFound(response) == response = "404"

\* Line 686.
RateLimited(response) == response = "429"

\* Lines 687 and 693/699: time.sleep(2 ** attempt).
Backoff(attempt) == 2 ^ attempt

\* The for statement after an iteration that neither returned nor broke: the
\* next attempt, or the end of range(retries).
AfterIteration(attempt) == IF attempt + 1 < retries THEN "loop" ELSE "exhausted"

\* Lines 679-699: one iteration of the loop, the invocation of func included.
SafeAttempt ==
  /\ safe.pc = "loop"
  /\ safe.attempt < retries
  /\ LET response == safe.responses[safe.attempt + 1]
         called == [safe EXCEPT !.calls = @ + 1]
         slept == [called EXCEPT !.waits = Append(@, Backoff(safe.attempt)),
                                 !.attempt = @ + 1,
                                 !.pc = AfterIteration(safe.attempt)]
     IN  safe' =
           IF response = "ok"
             THEN [called EXCEPT !.pc = "returned", !.ret = "result"]
           ELSE IF ~Caught(response)
             THEN [called EXCEPT !.pc = "raised"]
           ELSE IF NotFound(response)
             THEN [called EXCEPT !.pc = "returned", !.ret = "None"]
           ELSE IF RateLimited(response)
             THEN slept
           ELSE IF safe.attempt = retries - 1
             THEN [called EXCEPT !.pc = "exhausted"]
           ELSE slept
  /\ UNCHANGED <<store, audio_available, knn, ens, add, playlist, run, lite, batch, dl, sim, fetch, locks>>

\* Lines 700-701: the loop is over without a return.
SafeGiveUp ==
  /\ safe.pc = "exhausted"
  /\ safe' = [safe EXCEPT !.pc = "returned", !.ret = "None"]
  /\ UNCHANGED <<store, audio_available, knn, ens, add, playlist, run, lite, batch, dl, sim, fetch, locks>>

InitSafeCall ==
  /\ store = [t \in {} |-> NoRow]
  /\ audio_available = TRUE
  /\ knn = KnnIdle
  /\ ens = NoEnsure
  /\ add = NoAdd
  /\ playlist = {}
  /\ run = RunIdle
  /\ lite = LiteIdle
  /\ batch = BatchIdle
  /\ dl = DlIdle
  /\ sim = SimIdle
  /\ fetch = FetchIdle
  /\ locks = LocksIdle
  /\ \E responses \in [1..retries -> Responses] : safe = NewSafeCall(responses)

NextSafeCall == SafeAttempt \/ SafeGiveUp

SpecSafeCall == InitSafeCall /\ [][NextSafeCall]_vars

\* C28: a 404 from the wrapped call ends safe_spotify_call with None at that
\* invocation: no further invocation and no wait follow it, and when the first
\* response is the 404 there has been exactly one invocation and no wait at
\* all.  A 429 at attempt k is followed by a wait of 2^(k-1) seconds, and while
\* attempts remain the loop goes on to invocation k+1.
C28_NotFoundEndsRateLimitRetries ==
  \A k \in 1..retries :
    (safe.pc # "idle" /\ k <= safe.calls) =>
      /\ safe.responses[k] = "404" =>
           /\ safe.pc = "returned"
           /\ safe.ret = "None"
           /\ safe.calls = k
           /\ Len(safe.waits) = k - 1
           /\ k = 1 => (safe.calls = 1 /\ safe.waits = <<>>)
      /\ safe.responses[k] = "429" =>
           /\ Len(safe.waits) >= k
           /\ safe.waits[k] = 2 ^ (k - 1)
           /\ k < retries =>
                \/ safe.pc = "loop" /\ safe.attempt = k /\ safe.calls = k
                \/ safe.calls > k

\* The first invocation was rate limited and waited for, the second got a 404
\* and the call returned None without a third.
C28_Witness ==
  /\ safe.pc = "returned"
  /\ safe.responses = <<"429", "404", "ok">>
  /\ safe.calls = 2
  /\ safe.waits = <<1>>
  /\ safe.ret = "None"

\* C29: safe_spotify_call invokes the wrapped call at most 3 times and never
\* raises; what it returns is the result of the first invocation that
\* succeeded, and None when all three attempts were used without success.
C29_BoundedNeverRaises ==
  safe.pc # "idle" =>
    /\ safe.calls <= 3
    /\ safe.pc \in {"loop", "exhausted", "returned"}
    /\ \A k \in 1..safe.calls :
         safe.responses[k] = "ok" => (k = safe.calls /\ safe.pc = "returned")
    /\ safe.pc = "returned" =>
         /\ safe.calls >= 1
         /\ safe.ret \in {"result", "None"}
         /\ safe.ret = "result" <=> safe.responses[safe.calls] = "ok"
         /\ (safe.calls = 3 /\ safe.responses[3] # "ok") => safe.ret = "None"
    /\ safe.pc = "exhausted" =>
         /\ safe.calls = 3
         /\ \A k \in 1..3 : safe.responses[k] \notin {"ok", "404"}

\* Three invocations failed (an error, a rate limit, another exception), two
\* waits of 1 and 2 seconds were made, and the call returned None.
C29_Witness ==
  /\ safe.pc = "returned"
  /\ safe.responses = <<"500", "429", "exception">>
  /\ safe.calls = 3
  /\ safe.waits = <<1, 2>>
  /\ safe.ret = "None"

\* ------------------------------------------------------------------------
\* download_and_analyze_audio (audio_utils.py 234-343 and
\* db creation/build_audio_features_from_spotify.py 423-516)
\* ------------------------------------------------------------------------

\* The two copies of the function: audio_utils re-raises from its outer except
\* clause, the builder's copy returns None there.
Variants == {"audio_utils", "builder"}

\* tempfile.mkdtemp() and what yt-dlp writes under outtmpl 'audio.%(ext)s':
\* the file prepare_filename names, a .part file left by a broken download,
\* and a file with another extension than the one prepare_filename names.
TempDir == "tmp"
AudioFile == "tmp/audio.webm"
PartFile == "tmp/audio.webm.part"
OtherFile == "tmp/audio.m4a"

IsDir(path) == path = TempDir
Parent(path) == IF path = TempDir THEN "" ELSE TempDir

\* What ydl.extract_info(download=True) does, and what librosa and
\* extract_audio_features do with the file.
DownloadOutcomes == {"ok", "other_name", "failed", "rate_limit"}
AnalysisOutcomes == {"ok", "load_failed", "extract_failed"}

\* os.rmdir in place of shutil.rmtree: a directory that still has entries stays.
rmdir(fs, dir) == IF \E p \in fs : Parent(p) = dir THEN fs ELSE fs \ {dir}
\* shutil.rmtree: the directory and everything in it.
rmtree(fs, dir) == {p \in fs : p # dir /\ Parent(p) # dir}

\* One pass of the cleanup loop: audio_utils.py 336-341, builder 510-514.
RemoveItem(fs, temp_item) ==
  IF temp_item \notin fs THEN fs
  ELSE IF IsDir(temp_item) THEN rmtree(fs, temp_item)
  ELSE fs \ {temp_item}

\* The finally clause: every item of temp_files, in order.
RECURSIVE Cleanup(_, _)
Cleanup(fs, temp_files) ==
  IF temp_files = <<>> THEN fs
  ELSE Cleanup(RemoveItem(fs, Head(temp_files)), Tail(temp_files))

\* A call that has not run yet.  fs is what exists on disk of the paths above,
\* created every path the call has made, pending what the try block is about to
\* leave with, exit how control went back to the caller.
NewDownload(variant, video_id, ytdlp, librosa, download, partial, analysis) ==
  [pc |-> "call", variant |-> variant, video_id |-> video_id,
   YTDLP_AVAILABLE |-> ytdlp, LIBROSA_AVAILABLE |-> librosa,
   download |-> download, partial |-> partial, analysis |-> analysis,
   fs |-> {}, created |-> {}, temp_files |-> <<>>, downloaded_file |-> "",
   pending |-> "none", exit |-> "none"]

\* audio_utils.py 249-256, builder 428-429: the exits taken before the try
\* statement, with nothing created.
DlEnter ==
  /\ dl.pc = "call"
  /\ dl' =
       IF dl.variant = "audio_utils" /\ ~(dl.YTDLP_AVAILABLE /\ dl.LIBROSA_AVAILABLE)
         THEN [dl EXCEPT !.pc = "exited", !.exit = "raised"]
       ELSE IF dl.video_id = ""
         THEN [dl EXCEPT !.pc = "exited", !.exit = "None"]
       ELSE [dl EXCEPT !.pc = "mkdtemp"]
  /\ UNCHANGED <<store, audio_available, knn, ens, add, playlist, run, lite, batch, safe, sim, fetch, locks>>

\* audio_utils.py 266-267, builder 444-445.
DlMkdtemp ==
  /\ dl.pc = "mkdtemp"
  /\ dl' = [dl EXCEPT !.pc = "download",
                      !.fs = @ \cup {TempDir},
                      !.created = @ \cup {TempDir},
                      !.temp_files = Append(@, TempDir)]
  /\ UNCHANGED <<store, audio_available, knn, ens, add, playlist, run, lite, batch, safe, sim, fetch, locks>>

\* audio_utils.py 277-290, builder 457-468: the download and its except clause.
DlDownload ==
  /\ dl.pc = "download"
  /\ LET written == CASE dl.download = "ok" -> {AudioFile}
                      [] dl.download = "other_name" -> {OtherFile}
                      [] OTHER -> IF dl.partial THEN {PartFile} ELSE {}
         wrote == [dl EXCEPT !.fs = @ \cup written, !.created = @ \cup written]
     IN  dl' =
           CASE dl.download \in {"ok", "other_name"} ->
                  [wrote EXCEPT !.pc = "analyze", !.downloaded_file = AudioFile]
             [] dl.download = "rate_limit" ->
                  [wrote EXCEPT !.pc = "except", !.pending = "rate_limit"]
             [] OTHER ->
                  [wrote EXCEPT !.pc = "except", !.pending = "exception"]
  /\ UNCHANGED <<store, audio_available, knn, ens, add, playlist, run, lite, batch, safe, sim, fetch, locks>>

\* audio_utils.py 292-326, builder 470-495: the downloaded file is put on
\* temp_files and analysed.  audio_utils raises first when the file does not
\* exist; in the builder librosa fails on it.
DlAnalyze ==
  /\ dl.pc = "analyze"
  /\ LET missing == dl.downloaded_file \notin dl.fs
         listed == [dl EXCEPT !.temp_files = Append(@, dl.downloaded_file)]
     IN  dl' =
           IF missing /\ dl.variant = "audio_utils"
             THEN [dl EXCEPT !.pc = "except", !.pending = "exception"]
           ELSE IF missing \/ dl.analysis # "ok"
             THEN [listed EXCEPT !.pc = "except", !.pending = "exception"]
           ELSE [listed EXCEPT !.pc = "finally", !.pending = "features"]
  /\ UNCHANGED <<store, audio_available, knn, ens, add, playlist, run, lite, batch, safe, sim, fetch, locks>>

\* audio_utils.py 328-330 (print and raise), builder 497-499 (print and
\* return None, whatever the exception, the rate limit included).
DlExcept ==
  /\ dl.pc = "except"
  /\ dl' = [dl EXCEPT !.pc = "finally",
                      !.pending = IF dl.variant = "builder" THEN "None" ELSE @]
  /\ UNCHANGED <<store, audio_available, knn, ens, add, playlist, run, lite, batch, safe, sim, fetch, locks>>

\* audio_utils.py 332-343, builder 501-514: the finally clause, then control
\* goes back to the caller.
DlFinally ==
  /\ dl.pc = "finally"
  /\ dl' = [dl EXCEPT !.pc = "exited",
                      !.fs = Cleanup(dl.fs, dl.temp_files),
                      !.exit = CASE dl.pending = "exception" -> "raised"
                                 [] dl.pending = "rate_limit" -> "rate_limited"
                                 [] OTHER -> dl.pending]
  /\ UNCHANGED <<store, audio_available, knn, ens, add, playlist, run, lite, batch, safe, sim, fetch, locks>>

InitDownload ==
  /\ store = [t \in {} |-> NoRow]
  /\ audio_available = TRUE
  /\ knn = KnnIdle
  /\ ens = NoEnsure
  /\ add = NoAdd
  /\ playlist = {}
  /\ run = RunIdle
  /\ lite = LiteIdle
  /\ batch = BatchIdle
  /\ safe = SafeIdle
  /\ sim = SimIdle
  /\ fetch = FetchIdle
  /\ locks = LocksIdle
  /\ \E variant \in Variants, video_id \in {"", "v1"}, ytdlp, librosa, partial \in BOOLEAN,
        download \in DownloadOutcomes, analysis \in AnalysisOutcomes :
       /\ variant = "builder" => (ytdlp /\ librosa)
       /\ dl = NewDownload(variant, video_id, ytdlp, librosa, download, partial, analysis)

NextDownload ==
  \/ DlEnter
  \/ DlMkdtemp
  \/ DlDownload
  \/ DlAnalyze
  \/ DlExcept
  \/ DlFinally

SpecDownload == InitDownload /\ [][NextDownload]_vars

OracleOutcomes == {"found", "nothing", "rate_limit", "exception"}

\* A call about to run its first statement, as select_track_for_artist_lite
\* makes it.  conn is the local of that name: 0 for None, else the number of the
\* connection it is bound to; opened and closed are the connections
\* get_db_connection has handed out and those conn.close() was called on.
\* bound says whether the local similar_tracks_list has been assigned.
NewSimilar(seed_track_id, existing_artist_ids) ==
  [pc |-> "open", seed_track_id |-> seed_track_id,
   existing_artist_ids |-> existing_artist_ids,
   liked_songs_artist_ids |-> FetchLikedArtistIds,
   liked_track_ids |-> FetchLikedTrackIds,
   conn |-> 0, opened |-> {}, closed |-> {},
   already_exists |-> FALSE, bound |-> FALSE, similar_tracks_list |-> <<>>, ci |-> 1,
   search_calls |-> 0, query_calls |-> 0,
   pending |-> "none", value |-> "None", ret |-> "unset"]

\* return x inside a try statement: x is on its way out through the finally
\* clauses.
Returning(s, x, pc) == [s EXCEPT !.pc = pc, !.pending = "return", !.value = x]

\* An exception on its way to the except clause that takes it.
Raising(s, pc) == [s EXCEPT !.pc = pc, !.pending = "exception"]

\* Control is back with the caller.
Returned(s, x) == [s EXCEPT !.pc = "returned", !.pending = "none", !.ret = x]

\* Lines 761-780: sp.track for the seed, then get_db_connection; either may
\* give None, and the function returns None with no connection open.
SimOpen ==
  /\ sim.pc = "open"
  /\ \E track_ok, connect_ok \in BOOLEAN :
       sim' = IF ~track_ok THEN Returned(sim, "None")
              ELSE IF ~connect_ok THEN Returned(sim, "None")
              ELSE [sim EXCEPT !.pc = "check", !.conn = 1, !.opened = @ \cup {1}]
  /\ UNCHANGED <<store, audio_available, knn, ens, add, playlist, run, lite, batch, safe, dl, fetch, locks>>

\* Lines 782-793: is the seed in the store?  If so the else branch (lines
\* 794-919) is skipped.
SimCheck ==
  /\ sim.pc = "check"
  /\ \E db_ok \in BOOLEAN :
       sim' = IF ~db_ok THEN Raising(sim, "outer_exit")
              ELSE IF store[sim.seed_track_id] # NoRow
                THEN [sim EXCEPT !.pc = "outer_loop", !.already_exists = TRUE]
              ELSE [sim EXCEPT !.pc = "reopen"]
  /\ UNCHANGED <<store, audio_available, knn, ens, add, playlist, run, lite, batch, safe, dl, fetch, locks>>

\* Line 921: for ... in enumerate(similar_tracks_list, 1).  The only assignment
\* of similar_tracks_list is line 873 in the else branch, every path of which
\* returns, so the local is unbound here and the statement raises
\* UnboundLocalError.
SimOuterLoop ==
  /\ sim.pc = "outer_loop"
  /\ ~sim.bound
  /\ sim' = Raising(sim, "outer_exit")
  /\ UNCHANGED <<store, audio_available, knn, ens, add, playlist, run, lite, batch, safe, dl, fetch, locks>>

\* Lines 795-809: the else branch fetches the seed again and assigns a second
\* connection to conn (None when get_db_connection fails).
SimReopen ==
  /\ sim.pc = "reopen"
  /\ \E track_ok, connect_ok \in BOOLEAN :
       sim' = IF ~track_ok THEN Returning(sim, "None", "outer_exit")
              ELSE IF ~connect_ok
                THEN Returning([sim EXCEPT !.conn = 0], "None", "outer_exit")
              ELSE [sim EXCEPT !.pc = "inner_check", !.conn = 2, !.opened = @ \cup {2}]
  /\ UNCHANGED <<store, audio_available, knn, ens, add, playlist, run, lite, batch, safe, dl, fetch, locks>>

\* Lines 810-818: the second look for the seed's row.
SimInnerCheck ==
  /\ sim.pc = "inner_check"
  /\ \E db_ok \in BOOLEAN :
       sim' = IF ~db_ok THEN Raising(sim, "inner_exit")
              ELSE [sim EXCEPT !.pc = IF store[sim.seed_track_id] # NoRow
                                        THEN "query" ELSE "extract"]
  /\ UNCHANGED <<store, audio_available, knn, ens, add, playlist, run, lite, batch, safe, dl, fetch, locks>>

\* Lines 819-837: search_youtube, download_and_analyze_audio and
\* add_track_to_audio_features_db; nothing found returns None, and the except
\* Exception of line 835 takes every exception, the rate limit included, and
\* returns None.
SimExtract ==
  /\ sim.pc = "extract"
  /\ \E search \in OracleOutcomes, download \in OracleOutcomes, db_ok \in BOOLEAN :
       LET s == [sim EXCEPT !.search_calls = @ + 1]
           t == sim.seed_track_id
           features == search = "found" /\ download = "found"
       IN  /\ store' = IF features
                         THEN add_track_store(store, t, RawFeatures(t), t, db_ok)
                         ELSE store
           /\ sim' = IF features THEN [s EXCEPT !.pc = "query"]
                      ELSE Returning(s, "None", "inner_exit")
  /\ UNCHANGED <<audio_available, knn, ens, add, playlist, run, lite, batch, safe, dl, fetch, locks>>

\* Lines 838-876: the seed's row is read back and the ten nearest rows not in
\* liked_track_ids are asked for.
SimQuery ==
  /\ sim.pc = "query"
  /\ \E read_ok, db_ok \in BOOLEAN :
       LET row == store[sim.seed_track_id] IN
       IF ~read_ok THEN db_ok /\ sim' = Raising(sim, "inner_exit")
       ELSE IF row = NoRow THEN db_ok /\ sim' = Returning(sim, "None", "inner_exit")
       ELSE \E list \in find_most_similar_track_in_db(store, RowFeatures(row),
                                                      sim.liked_track_ids, 10, db_ok) :
              LET s == [sim EXCEPT !.query_calls = @ + 1] IN
              sim' = IF list = <<>> THEN Returning(s, "None", "inner_exit")
                     ELSE [s EXCEPT !.pc = "validate", !.bound = TRUE,
                                    !.similar_tracks_list = list, !.ci = 1]
  /\ UNCHANGED <<store, audio_available, knn, ens, add, playlist, run, lite, batch, safe, dl, fetch, locks>>

\* Lines 886-908: one candidate of the list: it is returned when sp.track gives
\* it, validate_track_lite passes it and compare_genres does not say False;
\* after the last one the function returns None.
SimValidate ==
  /\ sim.pc = "validate"
  /\ IF sim.ci > Len(sim.similar_tracks_list)
       THEN sim' = Returning(sim, "None", "inner_exit")
       ELSE \E track_ok, has_genre_match \in BOOLEAN :
              LET c == sim.similar_tracks_list[sim.ci].id
                  valid == validate_track_lite(c, sim.existing_artist_ids,
                                               sim.liked_songs_artist_ids)
              IN  sim' = IF track_ok /\ valid /\ has_genre_match
                           THEN Returning(sim, c, "inner_exit")
                           ELSE [sim EXCEPT !.ci = @ + 1]
  /\ UNCHANGED <<store, audio_available, knn, ens, add, playlist, run, lite, batch, safe, dl, fetch, locks>>

\* Lines 909-919: finally: conn.close() on the second connection, and the
\* except clauses of the else branch, which turn an exception into return None.
SimInnerExit ==
  /\ sim.pc = "inner_exit"
  /\ LET s == [sim EXCEPT !.closed = @ \cup {sim.conn}]
     IN  sim' = IF sim.pending = "exception"
                  THEN Returning(s, "None", "outer_exit")
                  ELSE [s EXCEPT !.pc = "outer_exit"]
  /\ UNCHANGED <<store, audio_available, knn, ens, add, playlist, run, lite, batch, safe, dl, fetch, locks>>

\* Lines 962-972: finally: conn.close() on whatever conn is bound to now (on
\* None it raises AttributeError, which replaces the return under way), and the
\* outer except clauses, which return None.
SimOuterExit ==
  /\ sim.pc = "outer_exit"
  /\ sim' = IF sim.conn = 0 \/ sim.pending = "exception"
              THEN Returned([sim EXCEPT !.closed = IF sim.conn = 0 THEN @
                                                   ELSE @ \cup {sim.conn}], "None")
              ELSE Returned([sim EXCEPT !.closed = @ \cup {sim.conn}], sim.value)
  /\ UNCHANGED <<store, audio_available, knn, ens, add, playlist, run, lite, batch, safe, dl, fetch, locks>>

InitSimilar ==
  /\ store \in RunStores
  /\ audio_available = TRUE
  /\ knn = KnnIdle
  /\ ens = NoEnsure
  /\ add = NoAdd
  /\ playlist = {}
  /\ run = RunIdle
  /\ lite = LiteIdle
  /\ batch = BatchIdle
  /\ safe = SafeIdle
  /\ dl = DlIdle
  /\ fetch = FetchIdle
  /\ locks = LocksIdle
  /\ \E seed_track_id \in SeqSet(SavedTracks), existing_artist_ids \in {{}, {"a3"}} :
       sim = NewSimilar(seed_track_id, existing_artist_ids)

NextSimilar ==
  \/ SimOpen
  \/ SimCheck
  \/ SimOuterLoop
  \/ SimReopen
  \/ SimInnerCheck
  \/ SimExtract
  \/ SimQuery
  \/ SimValidate
  \/ SimInnerExit
  \/ SimOuterExit

SpecSimilar == InitSimilar /\ [][NextSimilar]_vars

\* The stored candidates of a call that validate_track_lite passes: rows not in
\* liked_track_ids whose first artist is neither liked nor in the playlist.
PassingCandidates ==
  {t \in WhereClause(store, sim.liked_track_ids) :
     validate_track_lite(t, sim.existing_artist_ids, sim.liked_songs_artist_ids)}

\* C31: a call of get_similar_tracks_by_audio_features_db that found its seed
\* in the store has, when it returns, not asked the search/extraction oracle,
\* has queried the store for the nearest candidates, and has returned None only
\* if no stored candidate passes validation.
C31_CachedSeedQueriesStore ==
  (sim.pc = "returned" /\ sim.already_exists) =>
    /\ sim.search_calls = 0
    /\ sim.query_calls >= 1
    /\ sim.ret = "None" => PassingCandidates = {}

\* C40: when get_similar_tracks_by_audio_features_db has returned, every store
\* connection it opened has been closed.
C40_ConnectionsClosed ==
  sim.pc = "returned" => sim.opened \subseteq sim.closed

\* The seed the retry loop of the current winner started with.
FirstSeedOfWinner ==
  IF run.generation_mode = "liked_songs"
    THEN FirstLikedTrackOf(run.winner_aid, "")
    ELSE run.lottery_winners[run.idx]

\* C32: within the retry loop of one winner no seed is attempted twice; in
\* particular the seed about to be resolved after a failed attempt is not the
\* seed the loop started with.
C32_RetryUsesNewSeed ==
  (run.pc = "ensure" /\ run.retry_count >= 1) => run.seed_track_id # FirstSeedOfWinner

\* C33: in every generation mode the track a run accepts for a seed is not the
\* seed track itself.
C33_SeedNeverAccepted ==
  [][(run.pc = "validate" /\ Len(run'.selected_tracks) > Len(run.selected_tracks)) =>
       run'.selected_tracks[Len(run'.selected_tracks)] # run.seed_track_id]_vars

\* C34: the tracks_added a run returns is the number of tracks it appended to
\* the destination playlist: when it is positive, the tracks the run selected
\* are in the playlist.
C34_TracksAddedWereAdded ==
  /\ (run.pc = "done" /\ run.result.tracks_added > 0) =>
       (/\ run.result.tracks_added = Len(run.selected_tracks)
        /\ SeqSet(run.selected_tracks) \subseteq playlist)
  /\ (lite.pc = "done" /\ lite.result.tracks_added > 0) =>
       (/\ lite.result.tracks_added = Len(lite.selected_tracks)
        /\ SeqSet(lite.selected_tracks) \subseteq playlist)

\* ------------------------------------------------------------------------
\* The builder on a list of work items in which a track occurs more than once
\* ------------------------------------------------------------------------

\* Work items as the playlist-fed builder gets them, the same track at every
\* other place.
DuplicateTracks == [i \in 1..MaxTracks |-> IF i % 2 = 1 THEN "t1" ELSE "t2"]

InitDuplicates ==
  /\ store \in RunStores
  /\ audio_available = TRUE
  /\ playlist = {}
  /\ knn = KnnIdle
  /\ ens = NoEnsure
  /\ add = NoAdd
  /\ run = RunIdle
  /\ lite = LiteIdle
  /\ safe = SafeIdle
  /\ dl = DlIdle
  /\ sim = SimIdle
  /\ fetch = FetchIdle
  /\ locks = LocksIdle
  /\ \E num_threads \in 1..MaxThreads :
       batch = [pc |-> "start", tracks |-> DuplicateTracks,
                num_threads |-> num_threads, overwrite |-> FALSE,
                items |-> [i \in 1..MaxTracks |-> "pending"], yielded |-> {},
                db_lock |-> 0, print_lock |-> 0, conn_open |-> FALSE,
                conn_users |-> {}, observed |-> FALSE, rate_limit_hit |-> FALSE,
                processed_count |-> 0, skipped_count |-> 0,
                exit_status |-> NoExit]

SpecDuplicates == InitDuplicates /\ [][NextBatch]_vars

\* C35: no worker of the batch builder is at a statement on the shared
\* connection once the orchestrator has closed it.
C35_NoStoreAccessAfterClose ==
  (batch.pc # "idle" /\ batch.conn_users # {}) => batch.conn_open

\* C36: with overwrite=False no worker's insert is executed on a row that is
\* complete at that moment, whatever the interleaving and also when work items
\* carry the same track.
C36_CompleteRowNeverWritten ==
  [][\A i \in 1..MaxTracks :
       (/\ batch.pc # "idle"
        /\ ~batch.overwrite
        /\ i \in DOMAIN batch.items
        /\ batch.items[i] = "insert_in"
        /\ batch'.items[i] = "ok") =>
         ~exists_and_complete(store, batch.tracks[i])]_vars

\* build_audio_features_from_spotify.py 755-782: how process_single_track
\* leaves after download_and_analyze_audio has left in the given way: no
\* features is a skipped track, YouTubeRateLimitError is re-raised, any other
\* exception is a skipped track, features go on to the insert.
process_single_track_after(exit) ==
  CASE exit = "features" -> "insert"
    [] exit = "rate_limited" -> "raised"
    [] OTHER -> "skipped"

\* C37: in the liked-songs builder a rate limit detected during the audio
\* download leaves process_single_track as a raised YouTubeRateLimitError, not
\* as a skipped track.
C37_DownloadRateLimitRaised ==
  (/\ dl.pc = "exited"
   /\ dl.variant = "builder"
   /\ TempDir \in dl.created
   /\ dl.download = "rate_limit") =>
     process_single_track_after(dl.exit) = "raised"

\* ------------------------------------------------------------------------
\* fetch_liked_songs (db creation/build_audio_features_from_spotify.py 200-265)
\* ------------------------------------------------------------------------

\* Line 212: the page size (50 in the source, scaled down here).
batch_size == 2

\* A call of fetch_liked_songs at the head of its while loop.  limit is NoLimit
\* for None; library is the number of liked songs the provider holds;
\* tracks_data is the number of tracks collected so far.
NewFetch(limit, library) ==
  [pc |-> "loop", limit |-> limit, library |-> library,
   offset |-> 0, tracks_data |-> 0, fetch_size |-> 0]

\* Lines 214-222: the head of the loop: the size of the next page, or break when
\* the limit is reached.
FetchLoopHead ==
  /\ fetch.pc = "loop"
  /\ LET remaining == fetch.limit - fetch.tracks_data
     IN  fetch' =
           IF fetch.limit = NoLimit
             THEN [fetch EXCEPT !.pc = "call", !.fetch_size = batch_size]
           ELSE IF remaining <= 0 THEN [fetch EXCEPT !.pc = "returned"]
           ELSE [fetch EXCEPT !.pc = "call", !.fetch_size = Min2(batch_size, remaining)]
  /\ UNCHANGED <<store, audio_available, knn, ens, add, playlist, run, lite, batch, safe, dl, sim, locks>>

\* Lines 224-263: sp.current_user_saved_tracks for the page.  When it raises,
\* the except clause sleeps and continues the loop at the same offset.  An
\* empty page ends the loop; else the items with a track are collected (one of
\* them may have none), the offset moves on, and a short page ends the loop.
FetchPage ==
  /\ fetch.pc = "call"
  /\ \E ok \in BOOLEAN, without_track \in {0, 1} :
       LET left == fetch.library - fetch.offset
           items == IF left <= 0 THEN 0 ELSE Min2(fetch.fetch_size, left)
           added == IF items > without_track THEN items - without_track ELSE 0
       IN  fetch' =
             IF ~ok THEN [fetch EXCEPT !.pc = "loop"]
             ELSE IF items = 0 THEN [fetch EXCEPT !.pc = "returned"]
             ELSE [fetch EXCEPT !.tracks_data = @ + added,
                                !.offset = @ + fetch.fetch_size,
                                !.pc = IF items < fetch.fetch_size
                                         THEN "returned" ELSE "loop"]
  /\ UNCHANGED <<store, audio_available, knn, ens, add, playlist, run, lite, batch, safe, dl, sim, locks>>

InitFetch ==
  /\ store = [t \in {} |-> NoRow]
  /\ audio_available = TRUE
  /\ knn = KnnIdle
  /\ ens = NoEnsure
  /\ add = NoAdd
  /\ playlist = {}
  /\ run = RunIdle
  /\ lite = LiteIdle
  /\ batch = BatchIdle
  /\ safe = SafeIdle
  /\ dl = DlIdle
  /\ sim = SimIdle
  /\ locks = LocksIdle
  /\ \E limit \in {NoLimit} \cup 0..5, library \in 0..6 : fetch = NewFetch(limit, library)

NextFetch == FetchLoopHead \/ FetchPage

SpecFetch == InitFetch /\ [][NextFetch]_vars

\* The thread running fetch_liked_songs keeps running.
SpecFetchFair == SpecFetch /\ WF_vars(NextFetch)

\* C38: every call of fetch_liked_songs returns, also when the metadata
\* provider fails on every call.
C38_FetchTerminates == <>(fetch.pc = "returned")

\* ------------------------------------------------------------------------
\* The two locks of the batch builders (process_single_track and the
\* orchestrator's collecting loop)
\* ------------------------------------------------------------------------

\* Bounds: the threads of the pool and the work items submitted to it.
MaxLockThreads == 2
MaxLockItems == 2

\* The with blocks of process_single_track
\* (build_audio_features_from_spotify.py): header 700, check1 710, skip 723,
\* check2 730, incomplete 739, nomatch 749, verified 753, insert 764, saved
\* 768/772, error 780; and of the extensive branch of
\* build_audio_features_from_spotify_user.py: artist 534 (with the print_lock
\* block of line 536 inside it), discography 543.
DbSections == {"check1", "check2", "insert", "artist"}
PrintSections == {"header", "skip", "incomplete", "nomatch", "verified", "saved",
                  "error", "discography"}

\* The lock a with block takes.
LockOf(section) == IF section \in DbSections THEN "db_lock" ELSE "print_lock"

\* search_youtube between two with blocks: no video, a verified video, the rate
\* limit (the function is left by the exception, "done"), or another exception.
AfterSearch == {"nomatch", "verified", "done", "error"}

\* Where process_single_track may go when it leaves a with block: the next with
\* block on some path of the function, or "done" when it leaves the function.
Following(section, l) ==
  CASE section = "header" -> IF l.overwrite THEN AfterSearch ELSE {"check1"}
    [] section = "check1" -> {"skip", "check2", "error"}
    [] section = "check2" -> {"incomplete", "error"} \cup AfterSearch
    [] section = "incomplete" -> AfterSearch
    [] section = "verified" -> {"insert", "done", "error"}
    [] section = "insert" -> {"saved", "error"}
    [] section = "saved" -> IF l.extensive THEN {"artist", "done"} ELSE {"done"}
    [] section = "artist" -> {"discography"}
    [] OTHER -> {"done"}

\* A with block that never gives its lock back.
NoUnlock(lock, w) == lock
\* Leaving a with block, by its end, a return or an exception: the lock is
\* released.  0: free; w: held by thread w (the orchestrator is thread 0 + 1
\* above the workers).
Unlock(lock, w) == IF lock = w THEN 0 ELSE lock

Orchestrator == MaxLockThreads + 1

\* The pool with its work submitted and nothing started.
NewLocks(overwrite, extensive) ==
  [pc |-> "run", overwrite |-> overwrite, extensive |-> extensive,
   print_lock |-> 0, db_lock |-> 0,
   at |-> [w \in 1..MaxLockThreads |-> [section |-> "done", phase |-> "out"]],
   left |-> MaxLockItems, finished |-> 0, handled |-> 0, orch |-> "collect"]

\* A thread of the pool takes a queued work item and comes to the first with
\* block of process_single_track.
LockTake(w) ==
  /\ locks.pc = "run"
  /\ locks.at[w].section = "done"
  /\ locks.left > 0
  /\ locks' = [locks EXCEPT !.left = @ - 1,
                            !.at[w] = [section |-> "header", phase |-> "want"]]
  /\ UNCHANGED <<store, audio_available, knn, ens, add, playlist, run, lite, batch, safe, dl, sim, fetch>>

\* with lock: the thread blocks until the lock is free and takes it.
LockAcquire(w) ==
  /\ locks.pc = "run"
  /\ locks.at[w].phase = "want"
  /\ locks[LockOf(locks.at[w].section)] = 0
  /\ locks' = [locks EXCEPT ![LockOf(locks.at[w].section)] = w, !.at[w].phase = "in"]
  /\ UNCHANGED <<store, audio_available, knn, ens, add, playlist, run, lite, batch, safe, dl, sim, fetch>>

\* The end of a with block, and the way to the next one or out of the function.
LockRelease(w) ==
  /\ locks.pc = "run"
  /\ locks.at[w].phase = "in"
  /\ \E next \in Following(locks.at[w].section, locks) :
       locks' = [locks EXCEPT
         ![LockOf(locks.at[w].section)] = Unlock(@, w),
         !.at[w] = IF next = "done" THEN [section |-> "done", phase |-> "out"]
                   ELSE [section |-> next, phase |-> "want"],
         !.finished = IF next = "done" THEN @ + 1 ELSE @]
  /\ UNCHANGED <<store, audio_available, knn, ens, add, playlist, run, lite, batch, safe, dl, sim, fetch>>

\* build_audio_features_from_spotify_user.py 535-536: inside with db_lock, the
\* artist was processed before: with print_lock.
LockAcquireInner(w) ==
  /\ locks.pc = "run"
  /\ locks.at[w] = [section |-> "artist", phase |-> "in"]
  /\ locks' = [locks EXCEPT !.at[w].phase = "want_inner"]
  /\ UNCHANGED <<store, audio_available, knn, ens, add, playlist, run, lite, batch, safe, dl, sim, fetch>>

LockEnterInner(w) ==
  /\ locks.pc = "run"
  /\ locks.at[w].phase = "want_inner"
  /\ locks.print_lock = 0
  /\ locks' = [locks EXCEPT !.print_lock = w, !.at[w].phase = "in_inner"]
  /\ UNCHANGED <<store, audio_available, knn, ens, add, playlist, run, lite, batch, safe, dl, sim, fetch>>

\* Lines 537-538: the print is over and return True, False leaves both with
\* blocks.
LockReleaseInner(w) ==
  /\ locks.pc = "run"
  /\ locks.at[w].phase = "in_inner"
  /\ locks' = [locks EXCEPT !.print_lock = Unlock(@, w),
                            !.db_lock = Unlock(@, w),
                            !.at[w] = [section |-> "done", phase |-> "out"],
                            !.finished = @ + 1]
  /\ UNCHANGED <<store, audio_available, knn, ens, add, playlist, run, lite, batch, safe, dl, sim, fetch>>

\* build_audio_features_from_spotify.py 867-893: as_completed hands over a
\* finished future.  Its result is counted, or its exception is printed under
\* print_lock; after the rate-limit banner the queue is cancelled and the loop
\* left.
OrchCollect ==
  /\ locks.pc = "run"
  /\ locks.orch = "collect"
  /\ locks.handled < locks.finished
  /\ \E raised \in BOOLEAN :
       locks' = IF raised THEN [locks EXCEPT !.orch = "want"]
                ELSE [locks EXCEPT !.handled = @ + 1]
  /\ UNCHANGED <<store, audio_available, knn, ens, add, playlist, run, lite, batch, safe, dl, sim, fetch>>

OrchAcquire ==
  /\ locks.pc = "run"
  /\ locks.orch = "want"
  /\ locks.print_lock = 0
  /\ locks' = [locks EXCEPT !.print_lock = Orchestrator, !.orch = "in"]
  /\ UNCHANGED <<store, audio_available, knn, ens, add, playlist, run, lite, batch, safe, dl, sim, fetch>>

OrchRelease ==
  /\ locks.pc = "run"
  /\ locks.orch = "in"
  /\ \E rate_limit \in BOOLEAN :
       locks' = [locks EXCEPT !.print_lock = Unlock(@, Orchestrator),
                              !.handled = @ + 1,
                              !.orch = IF rate_limit THEN "left" ELSE "collect",
                              !.left = IF rate_limit THEN 0 ELSE @]
  /\ UNCHANGED <<store, audio_available, knn, ens, add, playlist, run, lite, batch, safe, dl, sim, fetch>>

InitLocks ==
  /\ store = [t \in {} |-> NoRow]
  /\ audio_available = TRUE
  /\ knn = KnnIdle
  /\ ens = NoEnsure
  /\ add = NoAdd
  /\ playlist = {}
  /\ run = RunIdle
  /\ lite = LiteIdle
  /\ batch = BatchIdle
  /\ safe = SafeIdle
  /\ dl = DlIdle
  /\ sim = SimIdle
  /\ fetch = FetchIdle
  /\ \E overwrite, extensive \in BOOLEAN : locks = NewLocks(overwrite, extensive)

NextLocks ==
  \/ \E w \in 1..MaxLockThreads :
       \/ LockTake(w)
       \/ LockAcquire(w)
       \/ LockRelease(w)
       \/ LockAcquireInner(w)
       \/ LockEnterInner(w)
       \/ LockReleaseInner(w)
  \/ OrchCollect
  \/ OrchAcquire
  \/ OrchRelease

SpecLocks == InitLocks /\ [][NextLocks]_vars

\* Every thread that can take a step keeps running.
SpecLocksFair == SpecLocks /\ WF_vars(NextLocks)

\* The locks thread w holds.
Held(w) == {l \in {"print_lock", "db_lock"} : locks[l] = w}

\* C39: the builders cannot deadlock on print_lock and db_lock.  No thread
\* waits for db_lock while it holds print_lock; a thread holds exactly the locks
\* of the with blocks it is inside, so none when it is outside them or has left
\* process_single_track; and a thread that waits for a lock gets it.
C39_NoLockDeadlock ==
  /\ [](locks.pc = "run" =>
          \A w \in 1..MaxLockThreads :
            LET a == locks.at[w] IN
            /\ (a.phase = "want" /\ a.section \in DbSections) => locks.print_lock # w
            /\ a.phase \in {"out", "want"} => Held(w) = {}
            /\ a.phase = "in" => Held(w) = {LockOf(a.section)}
            /\ a.phase = "want_inner" => Held(w) = {"db_lock"}
            /\ a.phase = "in_inner" => Held(w) = {"db_lock", "print_lock"}
            /\ locks.orch # "in" => Held(Orchestrator) = {})
  /\ \A w \in 1..MaxLockThreads :
       (locks.pc = "run" /\ locks.at[w].phase \in {"want", "want_inner"})
         ~> (locks.at[w].phase \in {"in", "in_inner"})
  /\ (locks.pc = "run" /\ locks.orch = "want") ~> (locks.orch = "in")

\* A worker inside with db_lock waits for print_lock, which another worker
\* holds, while that other one holds no db_lock.
C39_Witness ==
  /\ locks.pc = "run"
  /\ \E w, v \in 1..MaxLockThreads :
       /\ locks.at[w].phase = "want_inner"
       /\ locks.db_lock = w
       /\ locks.print_lock = v
       /\ locks.at[v].phase = "in"

==========================================================================
